---------------------------- MODULE Spec2Model ----------------------------
(***************************************************************************)
(* Model of the execd command runtime of OpenSandbox:                      *)
(*   - the tailer (tailStdPipe / readFromPos, command_common.go),          *)
(*   - the session registry (getCommandKernel / storeCommandKernel),       *)
(*   - the status and seek-output endpoints of the web controller,         *)
(*   - the registry lock, the run endpoint with its capture files, the     *)
(*     foreground run and Interrupt.                                       *)
(* Files are sequences of one-character strings; offsets are 0-based as in *)
(* the Go code, sequence indices are 1-based.                              *)
(***************************************************************************)
EXTENDS Integers, Sequences, FiniteSets, TLC

VARIABLES
  file,        \* tail: content of the capture file being tailed
  done,        \* tail: the done channel has been closed (process finished)
  lastPos,     \* tail: tailStdPipe's local lastPos
  tailPc,      \* tail: "loop" at tailStdPipe's select, "reading" and "polled"
               \*       within a poll, "returned" afterwards
  delivered,   \* tail: history of the onExecute invocations, in call order
  lastCycle,   \* tail: what the most recent readFromPos call did
  polls,       \* tail: number of ticker polls taken so far
  readFailed,  \* tail: some readFromPos call of this tailer has failed
  scan         \* tail: the readFromPos call of the poll under way

tailVars == <<file, done, lastPos, tailPc, delivered, lastCycle, polls,
              readFailed, scan>>

VARIABLES
  commandClientMap,  \* registry: session id -> kernel (Controller.commandClientMap)
  proc,              \* registry: session id -> state of its OS process
  now,               \* registry: the clock that time.Now() reads
  statusResp,        \* registry: the last answer of the status endpoint
  interruptResp      \* registry: the last result of Interrupt

regVars == <<commandClientMap, proc, now, statusResp, interruptResp>>

VARIABLES
  fs,          \* seek: the file system, path -> content
  query,       \* seek: the cursor the reader sends next, as the query string
  acc,         \* seek: the bodies the reader has received, concatenated
  lastSeek     \* seek: the last call of the seek-output endpoint

seekVars == <<fs, query, acc, lastSeek>>

VARIABLES
  mu,          \* lock: the registry's sync.RWMutex (Controller.mu)
  upd,         \* lock: session id -> position of its completion update
  qry          \* lock: the request in progress and what its lookup returned

lockVars == <<mu, upd, qry>>

VARIABLES
  firstStored, \* store: session id -> the kernel of its first register
  lastStored,  \* store: session id -> the kernel of its latest register
  dupStored    \* store: the session ids registered more than once

storeVars == <<firstStored, lastStored, dupStored>>

VARIABLES
  handles,     \* run: the paths of the file handles that are open
  runResp,     \* run: the last answer of the run endpoint
  terminal     \* run: the terminal event of the foreground run, once sent

runVars == <<handles, runResp, terminal>>

VARIABLES
  tailPos,     \* tailers: session id -> the offset its stdout tailer has reached
  tailScan     \* tailers: session id -> the readFromPos call of its poll under way

isoVars == <<tailPos, tailScan>>

VARIABLES
  eval,        \* library: the last call of a pure function, input and result
  ready,       \* sdk: the readiness poll of Sandbox.checkReady
  create       \* sdk: the call of Sandbox.create

libVars == <<eval, ready, create>>

engVars == <<lockVars, storeVars, runVars, isoVars, libVars>>

vars == <<tailVars, regVars, seekVars, engVars>>

----------------------------------------------------------------------------
(* Bounds of the model. *)

\* longest capture file the process writes
MaxFileLen == 4
\* most ticker polls one tailer takes
MaxPolls == 2
\* initial scanner buffer; the code uses 64*1024 (command_common.go:103),
\* scaled down with the maximum token size
StartBufSize == 1
\* maximum token size; the code uses 5*1024*1024 (command_common.go:103),
\* scaled down so that an oversized record fits in a modelled file
MaxTokenSize == 2

CR == "\r"
LF == "\n"
\* the bytes a process writes: an ordinary character and the two delimiters
Byte == {"a", CR, LF}

Min(a, b) == IF a < b THEN a ELSE b

----------------------------------------------------------------------------
(* readFromPos: the split function handed to bufio.Scanner. *)

\* index (1-based) of the first \n or \r of data, 0 when there is none
FirstDelim(data) ==
  IF \E i \in 1..Len(data) : data[i] \in {LF, CR}
  THEN CHOOSE i \in 1..Len(data) :
         /\ data[i] \in {LF, CR}
         /\ \A j \in 1..(i - 1) : data[j] \notin {LF, CR}
  ELSE 0

\* the split function: advance, and the token when there is one
SplitFunc(data, atEOF) ==
  LET i == FirstDelim(data) IN
  IF i > 0
  THEN IF data[i] = CR /\ i + 1 <= Len(data) /\ data[i + 1] = LF
       THEN [advance |-> i + 1, hasToken |-> TRUE, token |-> SubSeq(data, 1, i - 1)]
       ELSE [advance |-> i, hasToken |-> TRUE, token |-> SubSeq(data, 1, i - 1)]
  ELSE IF atEOF /\ Len(data) > 0
       THEN [advance |-> Len(data), hasToken |-> TRUE, token |-> data]
       ELSE [advance |-> 0, hasToken |-> FALSE, token |-> <<>>]

(* bufio.Scanner between two Reads.  start, end: the scanner's window into *)
(* its buffer; win: the bytes of the window, buf[start:end]; cap: the       *)
(* buffer's length; rpos: the file descriptor's offset; eof: a Read has     *)
(* returned io.EOF; tooLong: ErrTooLong is set; toks: the tokens Scan has   *)
(* returned.  The window holds the last end-start bytes read, as they were  *)
(* when they were read.                                                     *)
NewScanner(startPos) ==
  [start |-> 0, end |-> 0, win |-> <<>>, cap |-> StartBufSize,
   rpos |-> startPos, eof |-> FALSE, tooLong |-> FALSE, toks |-> <<>>]

\* bufio.Scanner.Scan for as long as the window gives a token: the calls of
\* the loop `for scanner.Scan()` that need no Read
RECURSIVE ScanTokens(_)
ScanTokens(s) ==
  LET sp == SplitFunc(s.win, s.eof) IN
  IF (s.end > s.start \/ s.eof) /\ sp.hasToken
  THEN ScanTokens([s EXCEPT !.start = @ + sp.advance,
                            !.win = SubSeq(@, sp.advance + 1, Len(@)),
                            !.toks = Append(@, [text |-> sp.token,
                                                at |-> s.rpos - Len(s.win),
                                                adv |-> sp.advance])])
  ELSE s

\* bufio.Scanner.Scan before it reads: the window is moved to the head of
\* the buffer, and a full buffer is doubled up to the maximum token size or
\* ends the scan with ErrTooLong
ScanRoom(s) ==
  LET shift == s.start > 0 /\ (s.end = s.cap \/ s.start > s.cap \div 2)
      s1 == IF shift THEN 0 ELSE s.start
      e1 == IF shift THEN s.end - s.start ELSE s.end
  IN
  IF e1 = s.cap /\ s.cap >= MaxTokenSize
  THEN [s EXCEPT !.start = s1, !.end = e1, !.tooLong = TRUE]
  ELSE
    LET grow == e1 = s.cap IN
    [s EXCEPT !.start = IF grow THEN 0 ELSE s1,
              !.end = IF grow THEN e1 - s1 ELSE e1,
              !.cap = IF grow THEN Min(s.cap * 2, MaxTokenSize) ELSE s.cap]

\* one Read of the file as it is at that moment, at the descriptor's offset
\* and into the free part of the buffer, then the tokens the window gives
\* and the room for the next Read.  A Read at or beyond the end of the file
\* returns 0 bytes and io.EOF.
ScanRead(f, s) ==
  LET avail == IF Len(f) > s.rpos THEN Len(f) - s.rpos ELSE 0
      n == Min(s.cap - s.end, avail)
      t == ScanTokens([s EXCEPT !.end = @ + n, !.rpos = @ + n,
                                !.win = @ \o SubSeq(f, s.rpos + 1, s.rpos + n),
                                !.eof = (n = 0)])
  IN IF t.eof THEN t ELSE ScanRoom(t)

\* the loop `for scanner.Scan()` has ended: at the end of the file or with
\* ErrTooLong
ScanEnded(s) == s.eof \/ s.tooLong

\* the loop `for scanner.Scan()` against a file that does not change while
\* it is read
RECURSIVE ScanLoop(_, _)
ScanLoop(f, s) == IF ScanEnded(s) THEN s ELSE ScanLoop(f, ScanRead(f, s))

\* a mutant of the return of readFromPos: a scan error returns the
\* descriptor's offset
readFromPos_AdvanceOnError(s, opened, startPos) ==
  IF ~opened THEN [ret |-> startPos, err |-> "open"]
  ELSE [ret |-> s.rpos, err |-> IF s.tooLong THEN "scan" ELSE "none"]

(* What readFromPos returns once its scan has ended, and how it ended:     *)
(* startPos when os.Open failed or scanner.Err() is set, else the          *)
(* descriptor's offset.                                                     *)
readFromPos_Return(s, opened, startPos) ==
  IF ~opened THEN [ret |-> startPos, err |-> "open"]
  ELSE IF s.tooLong THEN [ret |-> startPos, err |-> "scan"]
  ELSE [ret |-> s.rpos, err |-> "none"]

(* readFromPos against a file that does not change while it is read: the   *)
(* offset it returns, the tokens it hands to onExecute (in order), how it   *)
(* ended, and the offset its descriptor stood at when the scan ended: -1    *)
(* when os.Open failed and there was no descriptor.  openOk says whether    *)
(* os.Open succeeded.                                                       *)
readFromPos(f, openOk, startPos) ==
  LET s == IF openOk THEN ScanLoop(f, NewScanner(startPos))
           ELSE NewScanner(startPos)
      r == readFromPos_Return(s, openOk, startPos)
  IN [ret |-> r.ret, tokens |-> s.toks, err |-> r.err,
      pos |-> IF openOk THEN s.rpos ELSE 0 - 1]

----------------------------------------------------------------------------
(* The tailer: tailStdPipe driving readFromPos against a growing file.  A   *)
(* poll is a sequence of steps, one for each Read of the file, and the      *)
(* process may append between any two of them; the step that follows the    *)
(* last Read assigns the offset.                                            *)

NoCycle == [kind |-> "none", err |-> "none", start |-> 0, ret |-> 0, n |-> 0,
            eof |-> 0, size |-> 0]

\* no readFromPos call of a poll is under way.  opened: os.Open succeeded;
\* startPos: the offset the call was given; size: the length of the file
\* when the call began; n: the tokens handed to onExecute so far
NoScan == [opened |-> FALSE, startPos |-> 0, size |-> 0, n |-> 0,
           scanner |-> NewScanner(0)]

\* the onExecute invocations of one readFromPos call, tagged with the branch
\* of tailStdPipe's select that made the call and with the call's number
Invocations(tokens, via, cycle) ==
  [i \in 1..Len(tokens) |->
     [text |-> tokens[i].text, at |-> tokens[i].at, adv |-> tokens[i].adv,
      via |-> via, cycle |-> cycle]]

\* the record of a readFromPos call on a file that stood still: eof is the
\* offset of the descriptor when the scan ended, which is short of the end
\* of the file when the scan ended with an error and -1 when the file was
\* not opened; size is the length of the file when the call began
CycleOf(kind, r, startPos, f) ==
  [kind |-> kind, err |-> r.err, start |-> startPos, ret |-> r.ret,
   n |-> Len(r.tokens), eof |-> r.pos, size |-> Len(f)]

TailInit ==
  /\ file = <<>>
  /\ done = FALSE
  /\ lastPos = 0
  /\ tailPc = "loop"
  /\ delivered = <<>>
  /\ lastCycle = NoCycle
  /\ polls = 0
  /\ readFailed = FALSE
  /\ scan = NoScan

\* the process appends one byte to its capture file
ProcAppend ==
  \E b \in Byte :
    /\ ~done
    /\ Len(file) < MaxFileLen
    /\ file' = Append(file, b)
    /\ UNCHANGED <<done, lastPos, tailPc, delivered, lastCycle, polls, readFailed,
                   scan, regVars, seekVars, engVars>>

\* the process has exited and the engine closes the done channel
ProcFinish ==
  /\ ~done
  /\ done' = TRUE
  /\ UNCHANGED <<file, lastPos, tailPc, delivered, lastCycle, polls, readFailed,
                 scan, regVars, seekVars, engVars>>

\* one Read of the poll's scanner and the onExecute calls for the tokens it
\* completes; the poll goes on reading unless the scan has ended
PollRead(call) ==
  LET t == ScanRead(file, call.scanner) IN
  /\ scan' = [call EXCEPT !.opened = TRUE,
                          !.n = @ + Len(t.toks),
                          !.scanner = [t EXCEPT !.toks = <<>>]]
  /\ delivered' = delivered \o Invocations(t.toks, "poll", polls + 1)
  /\ tailPc' = IF ScanEnded(t) THEN "polled" ELSE "reading"

\* tailStdPipe, case <-ticker.C: readFromPos is called with lastPos; it
\* returns at once when os.Open fails, else it seeks and its scanner reads
\* for the first time
TailTick ==
  \E openOk \in BOOLEAN :
    /\ tailPc = "loop"
    /\ polls < MaxPolls
    /\ LET call == [NoScan EXCEPT !.startPos = lastPos, !.size = Len(file),
                                   !.scanner = NewScanner(lastPos)]
       IN IF openOk
          THEN PollRead(call)
          ELSE /\ scan' = call
               /\ delivered' = delivered
               /\ tailPc' = "polled"
    /\ UNCHANGED <<file, done, lastPos, lastCycle, polls, readFailed, regVars,
                   seekVars, engVars>>

\* the scanner of the poll under way reads again
TailRead ==
  /\ tailPc = "reading"
  /\ PollRead(scan)
  /\ UNCHANGED <<file, done, lastPos, lastCycle, polls, readFailed, regVars,
                 seekVars, engVars>>

\* the record of the poll whose readFromPos returns r: eof is the offset of
\* the descriptor when the scan ended, -1 when the file was not opened
PollCycle(r) ==
  [kind |-> "poll", err |-> r.err, start |-> scan.startPos, ret |-> r.ret,
   n |-> scan.n, eof |-> IF scan.opened THEN scan.scanner.rpos ELSE 0 - 1,
   size |-> scan.size]

\* a mutant of the ticker case: the offset readFromPos returns is dropped
TailAssign_KeepOffset ==
  /\ tailPc = "polled"
  /\ LET r == readFromPos_Return(scan.scanner, scan.opened, scan.startPos) IN
     /\ lastPos' = lastPos
     /\ lastCycle' = PollCycle(r)
     /\ readFailed' = (readFailed \/ r.err # "none")
  /\ polls' = polls + 1
  /\ tailPc' = "loop"
  /\ scan' = NoScan
  /\ UNCHANGED <<file, done, delivered, regVars, seekVars, engVars>>

\* the readFromPos call of the poll returns and tailStdPipe assigns what it
\* returned: lastPos = newPos
TailAssign ==
  /\ tailPc = "polled"
  /\ LET r == readFromPos_Return(scan.scanner, scan.opened, scan.startPos) IN
     /\ lastPos' = r.ret
     /\ lastCycle' = PollCycle(r)
     /\ readFailed' = (readFailed \/ r.err # "none")
  /\ polls' = polls + 1
  /\ tailPc' = "loop"
  /\ scan' = NoScan
  /\ UNCHANGED <<file, done, delivered, regVars, seekVars, engVars>>

\* a mutant of the done case: the last read starts at the head of the file
TailDone_FromStart ==
  \E openOk \in BOOLEAN :
    /\ tailPc = "loop"
    /\ done
    /\ LET r == readFromPos(file, openOk, 0) IN
       /\ delivered' = delivered \o Invocations(r.tokens, "drain", polls + 1)
       /\ lastCycle' = CycleOf("drain", r, 0, file)
       /\ readFailed' = (readFailed \/ r.err # "none")
    /\ tailPc' = "returned"
    /\ UNCHANGED <<file, done, lastPos, polls, scan, regVars, seekVars,
                   engVars>>

\* tailStdPipe, case <-done: one last read, then return.  The done channel
\* is closed after the process has exited, so the file stands still while
\* this read goes on.
TailDone ==
  \E openOk \in BOOLEAN :
    /\ tailPc = "loop"
    /\ done
    /\ LET r == readFromPos(file, openOk, lastPos) IN
       /\ delivered' = delivered \o Invocations(r.tokens, "drain", polls + 1)
       /\ lastCycle' = CycleOf("drain", r, lastPos, file)
       /\ readFailed' = (readFailed \/ r.err # "none")
    /\ tailPc' = "returned"
    /\ UNCHANGED <<file, done, lastPos, polls, scan, regVars, seekVars,
                   engVars>>


----------------------------------------------------------------------------
(* What the specification calls the records of a file: split on \n or \r,   *)
(* \r\n one delimiter, a final piece without delimiter being the last one.  *)
RECURSIVE Lines(_)
Lines(f) ==
  IF f = <<>> THEN <<>>
  ELSE LET i == FirstDelim(f) IN
       IF i = 0 THEN <<f>>
       ELSE LET k == IF f[i] = CR /\ i < Len(f) /\ f[i + 1] = LF
                     THEN i + 1 ELSE i
            IN <<SubSeq(f, 1, i - 1)>> \o Lines(SubSeq(f, k + 1, Len(f)))

Texts(d) == [i \in 1..Len(d) |-> d[i].text]

\* the bytes of the file consumed by invocation i, its delimiter included
Consumed(d, i) == d[i].at .. (d[i].at + d[i].adv - 1)

----------------------------------------------------------------------------
(* C1: once tailStdPipe has returned, the records handed to onExecute are   *)
(* exactly the lines of the file, in order, each once.  Stated for the runs *)
(* in which no read failed and the lines end in \n.                         *)
C1_DeliversExactlyTheLines ==
  (tailPc = "returned" /\ ~readFailed /\ \A k \in 1..Len(file) : file[k] # CR)
    => Texts(delivered) = Lines(file)

(* C2: a record that no delimiter follows (the rest of the file at the time *)
(* of the read) is handed to onExecute only by the final drain, never by a  *)
(* ticker poll.                                                             *)
C2_PartialOnlyAtDrain ==
  \A i \in 1..Len(delivered) :
    delivered[i].via = "poll" => delivered[i].adv > Len(delivered[i].text)

(* C3: records reach onExecute in file order and no byte of the file is     *)
(* handed over by two invocations, whatever reads failed.                   *)
C3_FileOrderEachByteOnce ==
  \A i, j \in 1..Len(delivered) :
    i < j => delivered[i].at + Len(delivered[i].text) <= delivered[j].at

\* the step is the first Read of a poll: readFromPos has been called
PollBegins == tailPc = "loop" /\ tailPc' \in {"reading", "polled"}
\* the step ends a poll: readFromPos returns and lastPos is assigned
PollEnds == polls' = polls + 1

(* C4: a readFromPos call that fails, on os.Open or on the scanner's error, *)
(* returns the startPos it was given, whatever the process appended while  *)
(* it read; the failed poll leaves lastPos where it was, the next poll is  *)
(* called with that offset and its scanner starts reading there; and every *)
(* byte below lastPos has been consumed by some invocation of onExecute:   *)
(* none was skipped.                                                       *)
C4_FailedReadKeepsOffset ==
  /\ [](lastCycle.err # "none" => lastCycle.ret = lastCycle.start)
  /\ [][(PollEnds /\ lastCycle'.err # "none") =>
          /\ lastCycle'.start = lastPos
          /\ lastPos' = lastPos]_vars
  /\ [][PollBegins =>
          /\ scan'.startPos = lastPos
          /\ scan'.opened =>
               /\ scan'.scanner.rpos >= lastPos
               /\ \A i \in (Len(delivered) + 1)..Len(delivered') :
                    delivered'[i].at >= lastPos
               /\ Len(delivered') > Len(delivered) =>
                    delivered'[Len(delivered) + 1].at = lastPos]_vars
  /\ [](\A k \in 0..(lastPos - 1) :
          \E i \in 1..Len(delivered) : k \in Consumed(delivered, i))

\* a poll failed on an oversized record part of which the process wrote
\* while the poll was reading, with unread bytes in the file
C4_Witness ==
  /\ lastCycle.kind = "poll"
  /\ lastCycle.err = "scan"
  /\ lastCycle.eof > lastCycle.size
  /\ lastPos < Len(file)
  /\ lastPos > 0

(* C5: a read that meets an oversized record does not advance the offset    *)
(* and does not invoke onExecute at all.                                    *)
C5_OversizedCycleDeliversNothing ==
  lastCycle.err = "scan" => lastCycle.ret = lastCycle.start /\ lastCycle.n = 0

(* C6: no empty record is produced between the \r and the \n of a \r\n     *)
(* pair: no invocation has an empty text whose delimiter is a \n that       *)
(* directly follows a \r.                                                   *)
C6_NoEmptyRecordInsideCRLF ==
  \A i \in 1..Len(delivered) :
    ~ /\ delivered[i].text = <<>>
      /\ delivered[i].at >= 1
      /\ file[delivered[i].at + 1] = LF
      /\ file[delivered[i].at] = CR

----------------------------------------------------------------------------
(* The session registry and the status endpoint. *)

\* a Go pointer or optional value: None is nil, Some(v) points to v
None == <<>>
Some(v) == <<v>>
\* a nil *commandKernel; reading a field of it fails, as in Go
NilKernel == [nil |-> TRUE]

\* Session ids and paths are Go strings: sequences of one-character strings.
S1 == <<"s", "1">>
S2 == <<"s", "2">>
SessionIDs == {S1, S2}
\* an id that is never registered
UnknownID == <<"m">>
\* ids a client may ask about: the sessions and one that is never registered
QueryIDs == SessionIDs \cup {UnknownID}
ExitCodes == {0, 1}

\* os.PathSeparator
Separator == "/"
Dot == <<".">>
DotDot == <<".", ".">>

\* os.TempDir() with TMPDIR unset
TempDir == <<"/", "t", "m", "p">>

\* the elements of a path: the pieces between separators, empty ones included
RECURSIVE SplitPath(_, _, _)
SplitPath(path, i, cur) ==
  IF i > Len(path) THEN <<cur>>
  ELSE IF path[i] = Separator
       THEN <<cur>> \o SplitPath(path, i + 1, <<>>)
       ELSE SplitPath(path, i + 1, Append(cur, path[i]))

\* filepath.Clean's pass over the elements: empty and "." elements are
\* dropped, ".." removes the element before it, is dropped at the root and
\* is kept at the start of a relative path
RECURSIVE CleanElements(_, _, _, _)
CleanElements(elems, i, out, rooted) ==
  IF i > Len(elems) THEN out
  ELSE IF elems[i] = <<>> \/ elems[i] = Dot
       THEN CleanElements(elems, i + 1, out, rooted)
       ELSE IF elems[i] = DotDot
            THEN IF Len(out) > 0 /\ out[Len(out)] # DotDot
                 THEN CleanElements(elems, i + 1, SubSeq(out, 1, Len(out) - 1),
                                    rooted)
                 ELSE IF rooted
                      THEN CleanElements(elems, i + 1, out, rooted)
                      ELSE CleanElements(elems, i + 1, Append(out, DotDot),
                                         rooted)
            ELSE CleanElements(elems, i + 1, Append(out, elems[i]), rooted)

\* strings.Join(elems, "/")
RECURSIVE JoinElements(_)
JoinElements(elems) ==
  IF elems = <<>> THEN <<>>
  ELSE IF Len(elems) = 1 THEN elems[1]
       ELSE elems[1] \o <<Separator>> \o JoinElements(Tail(elems))

\* filepath.Clean: the shortest path equivalent to path
Clean(path) ==
  IF path = <<>> THEN Dot
  ELSE LET rooted == path[1] = Separator
           out == CleanElements(SplitPath(path, 1, <<>>), 1, <<>>, rooted)
       IN IF rooted THEN <<Separator>> \o JoinElements(out)
          ELSE IF out = <<>> THEN Dot ELSE JoinElements(out)

\* filepath.Join(dir, name): empty leading elements are ignored, the rest is
\* joined with the separator and cleaned
Join(dir, name) ==
  IF dir = <<>>
  THEN IF name = <<>> THEN <<>> ELSE Clean(name)
  ELSE Clean(dir \o <<Separator>> \o name)

\* the ids the engine runs sessions under in the specifications below: the
\* two plain ids and one that starts with the separator
IsoIDs == {S1, <<Separator>> \o S1}
EngineIDs == SessionIDs \cup IsoIDs
StdoutSuffix == <<".", "s", "t", "d", "o", "u", "t">>
StderrSuffix == <<".", "s", "t", "d", "e", "r", "r">>
\* the capture paths of those ids, computed once
CapturePaths ==
  [session \in EngineIDs |->
     [stdout |-> Join(TempDir, session \o StdoutSuffix),
      stderr |-> Join(TempDir, session \o StderrSuffix)]]

\* stdoutFileName: filepath.Join(os.TempDir(), session+".stdout")
stdoutFileName(session) ==
  IF session \in EngineIDs THEN CapturePaths[session].stdout
  ELSE Join(TempDir, session \o StdoutSuffix)
\* stderrFileName: filepath.Join(os.TempDir(), session+".stderr")
stderrFileName(session) ==
  IF session \in EngineIDs THEN CapturePaths[session].stderr
  ELSE Join(TempDir, session \o StderrSuffix)

\* combinedOutputFileName: filepath.Join(os.TempDir(), session+".output")
combinedOutputFileName(session) ==
  Join(TempDir, session \o <<".", "o", "u", "t", "p", "u", "t">>)

\* a mutant of getCommandKernel: a missing key yields some stored kernel
getCommandKernel_AnyOnMiss(m, sessionID) ==
  IF sessionID \in DOMAIN m THEN m[sessionID]
  ELSE IF DOMAIN m = {} THEN NilKernel
  ELSE m[CHOOSE k \in DOMAIN m : TRUE]

\* a mutant of getCommandKernel: every lookup misses
getCommandKernel_NeverFound(m, sessionID) ==
  IF sessionID \in DOMAIN m \ DOMAIN m THEN m[sessionID] ELSE NilKernel

\* getCommandKernel: the map lookup; a Go map yields nil for a missing key
getCommandKernel(m, sessionID) ==
  IF sessionID \in DOMAIN m THEN m[sessionID] ELSE NilKernel

\* a mutant of storeCommandKernel: an id that has a kernel keeps it
storeCommandKernel_KeepFirst(m, sessionID, kernel) ==
  [k \in DOMAIN m \cup {sessionID} |->
     IF k \in DOMAIN m THEN m[k] ELSE kernel]

\* storeCommandKernel: c.commandClientMap[sessionID] = kernel
storeCommandKernel(m, sessionID, kernel) ==
  [k \in DOMAIN m \cup {sessionID} |-> IF k = sessionID THEN kernel ELSE m[k]]

\* the kernel the engine registers when it starts a command
NewKernel(session, pid, background, t) ==
  [pid |-> pid, stdoutPath |-> stdoutFileName(session),
   stderrPath |-> stderrFileName(session), isBackground |-> background,
   startedAt |-> t, finishedAt |-> None, exitCode |-> None, errMsg |-> "",
   running |-> TRUE]

\* the completion update: running=false, finishedAt, exitCode or errMsg,
\* written whatever the kernel held before
markCommandFinished(m, session, exitCode, errMsg, t) ==
  IF session \notin DOMAIN m THEN m
  ELSE storeCommandKernel(m, session,
         [m[session] EXCEPT !.running = FALSE, !.finishedAt = Some(t),
                            !.exitCode = exitCode, !.errMsg = errMsg])

\* runtime GetCommandStatus: the kernel's status, or an error for an unknown
\* id (err "" is Go's nil error)
GetCommandStatus(m, session) ==
  LET kernel == getCommandKernel(m, session) IN
  IF kernel = NilKernel
  THEN [err |-> "command not found", status |-> None]
  ELSE [err |-> "",
        status |-> Some([Session |-> session, Running |-> kernel.running,
                         ExitCode |-> kernel.exitCode, Error |-> kernel.errMsg,
                         StartedAt |-> kernel.startedAt,
                         FinishedAt |-> kernel.finishedAt])]

StatusOK == 200
StatusBadRequest == 400
StatusNotFound == 404
ErrorCodeInvalidRequest == "InvalidRequest"
ErrorCodeMissingQuery == "MissingQuery"

\* RespondError: the status and the error envelope
RespondError(status, code, message) ==
  [status |-> status, error |-> Some([Code |-> code, Message |-> message]),
   data |-> None, header |-> None, body |-> None]

\* RespondSuccess: status 200, and the data as JSON unless it is nil
RespondSuccess(data) ==
  [status |-> StatusOK, error |-> None,
   data |-> IF data # None THEN Some(data) ELSE None,
   header |-> None, body |-> None]

\* a mutant of the status handler: FinishedAt is not copied to the response
CtlGetCommandStatus_DropFinishedAt(m, commandID) ==
  IF commandID = <<>>
  THEN RespondError(StatusBadRequest, ErrorCodeInvalidRequest,
                    "missing command execution id")
  ELSE LET r == GetCommandStatus(m, commandID) IN
       IF r.err # ""
       THEN RespondError(StatusNotFound, ErrorCodeInvalidRequest, r.err)
       ELSE RespondSuccess(
              [ID |-> r.status[1].Session, Running |-> r.status[1].Running,
               ExitCode |-> r.status[1].ExitCode, Error |-> r.status[1].Error,
               StartedAt |-> IF r.status[1].StartedAt # 0
                             THEN Some(r.status[1].StartedAt) ELSE None,
               FinishedAt |-> None])

\* a mutant of the status handler: a finished command reports its finishedAt
\* as its startedAt
CtlGetCommandStatus_StartedAtFinish(m, commandID) ==
  IF commandID = <<>>
  THEN RespondError(StatusBadRequest, ErrorCodeInvalidRequest,
                    "missing command execution id")
  ELSE LET r == GetCommandStatus(m, commandID) IN
       IF r.err # ""
       THEN RespondError(StatusNotFound, ErrorCodeInvalidRequest, r.err)
       ELSE RespondSuccess(
              [ID |-> r.status[1].Session, Running |-> r.status[1].Running,
               ExitCode |-> r.status[1].ExitCode, Error |-> r.status[1].Error,
               StartedAt |-> IF r.status[1].FinishedAt # None
                             THEN r.status[1].FinishedAt
                             ELSE Some(r.status[1].StartedAt),
               FinishedAt |-> IF r.status[1].FinishedAt # None
                              THEN r.status[1].FinishedAt ELSE None])

\* a mutant of the status handler: Running is always reported true
CtlGetCommandStatus_RunningTrue(m, commandID) ==
  IF commandID = <<>>
  THEN RespondError(StatusBadRequest, ErrorCodeInvalidRequest,
                    "missing command execution id")
  ELSE LET r == GetCommandStatus(m, commandID) IN
       IF r.err # ""
       THEN RespondError(StatusNotFound, ErrorCodeInvalidRequest, r.err)
       ELSE RespondSuccess(
              [ID |-> r.status[1].Session, Running |-> TRUE,
               ExitCode |-> r.status[1].ExitCode, Error |-> r.status[1].Error,
               StartedAt |-> IF r.status[1].StartedAt # 0
                             THEN Some(r.status[1].StartedAt) ELSE None,
               FinishedAt |-> IF r.status[1].FinishedAt # None
                              THEN r.status[1].FinishedAt ELSE None])

\* CodeInterpretingController.GetCommandStatus: the status endpoint.
\* Time 0 is Go's zero time.
CtlGetCommandStatus(m, commandID) ==
  IF commandID = <<>>
  THEN RespondError(StatusBadRequest, ErrorCodeInvalidRequest,
                    "missing command execution id")
  ELSE LET r == GetCommandStatus(m, commandID) IN
       IF r.err # ""
       THEN RespondError(StatusNotFound, ErrorCodeInvalidRequest, r.err)
       ELSE RespondSuccess(
              [ID |-> r.status[1].Session, Running |-> r.status[1].Running,
               ExitCode |-> r.status[1].ExitCode, Error |-> r.status[1].Error,
               StartedAt |-> IF r.status[1].StartedAt # 0
                             THEN Some(r.status[1].StartedAt) ELSE None,
               FinishedAt |-> IF r.status[1].FinishedAt # None
                              THEN r.status[1].FinishedAt ELSE None])

NoStatusResp == [id |-> <<>>, known |-> FALSE, resp |-> None]
\* no request is in progress
NoQuery == [pc |-> "idle", id |-> <<>>, pending |-> {}, snap |-> NilKernel]

RegInit ==
  /\ commandClientMap = <<>>
  /\ proc = [s \in SessionIDs |-> [st |-> "none", code |-> None]]
  /\ now = 1
  /\ statusResp = NoStatusResp
  /\ interruptResp = ""

\* Run accepted: Execute registers the kernel with running=true; the spawn
\* of the process is still to come
RunCommand(s) ==
  \E background \in BOOLEAN :
    /\ s \notin DOMAIN commandClientMap
    /\ commandClientMap' =
         storeCommandKernel(commandClientMap, s,
                            NewKernel(s, 0, background, now))
    /\ proc' = [proc EXCEPT ![s] = [st |-> "spawning", code |-> None]]
    /\ now' = now + 1
    /\ UNCHANGED <<statusResp, interruptResp, tailVars, seekVars, engVars>>

\* the OS process exits and reports an exit code
ProcExits(s) ==
  \E code \in ExitCodes :
    /\ proc[s].st \in {"alive", "signalled"}
    /\ proc' = [proc EXCEPT ![s] = [st |-> "exited", code |-> Some(code)]]
    /\ UNCHANGED <<commandClientMap, now, statusResp, interruptResp, tailVars,
                   seekVars, engVars>>

\* the OS process dies of the termination signal and reports no exit code
ProcKilled(s) ==
  /\ proc[s].st = "signalled"
  /\ proc' = [proc EXCEPT ![s] = [st |-> "exited", code |-> None]]
  /\ UNCHANGED <<commandClientMap, now, statusResp, interruptResp, tailVars,
                   seekVars, engVars>>

\* the error recorded for an exit: none when the process reported an exit
\* code, the wait error when it died of a signal
ExitErrMsg(code) == IF code = None THEN "signal: killed" ELSE ""

\* the engine's monitoring path sees the exit and updates the kernel
MonitorFinish(s) ==
  /\ proc[s].st = "exited"
  /\ commandClientMap' =
       markCommandFinished(commandClientMap, s, proc[s].code,
                           ExitErrMsg(proc[s].code), now)
  /\ proc' = [proc EXCEPT ![s].st = "reaped"]
  /\ now' = now + 1
  /\ UNCHANGED <<statusResp, interruptResp, tailVars, seekVars, engVars>>

\* the completion of a session is noticed a second time: the completion
\* update is made again, with the exit code the process reported and the
\* time of the second notice
CompletionAgain(s) ==
  /\ proc[s].st = "reaped"
  /\ commandClientMap' =
       markCommandFinished(commandClientMap, s, proc[s].code,
                           ExitErrMsg(proc[s].code), now)
  /\ proc' = [proc EXCEPT ![s].st = "renoticed"]
  /\ now' = now + 1
  /\ UNCHANGED <<statusResp, interruptResp, tailVars, seekVars, engVars>>

\* a mutant of Interrupt: it marks the session finished by itself
Interrupt_MarksFinished(id) ==
  LET kernel == getCommandKernel(commandClientMap, id) IN
  /\ IF kernel = NilKernel
     THEN /\ interruptResp' = "NotFound"
          /\ UNCHANGED <<commandClientMap, proc>>
     ELSE /\ interruptResp' = "ok"
          /\ IF kernel.running /\ proc[id].st = "alive"
             THEN /\ proc' = [proc EXCEPT ![id].st = "signalled"]
                  /\ commandClientMap' =
                       markCommandFinished(commandClientMap, id, None,
                                           "interrupted", now)
             ELSE UNCHANGED <<commandClientMap, proc>>
  /\ UNCHANGED <<now, statusResp, tailVars, seekVars, engVars>>

\* Interrupt: NotFound for an unknown id, a termination request to the
\* process of a running session, nothing for a finished one
Interrupt(id) ==
  LET kernel == getCommandKernel(commandClientMap, id) IN
  /\ IF kernel = NilKernel
     THEN /\ interruptResp' = "NotFound"
          /\ UNCHANGED proc
     ELSE /\ interruptResp' = "ok"
          /\ IF kernel.running /\ proc[id].st = "alive"
             THEN proc' = [proc EXCEPT ![id].st = "signalled"]
             ELSE UNCHANGED proc
  /\ UNCHANGED <<commandClientMap, now, statusResp, tailVars, seekVars, engVars>>

\* the lookup of a request: getCommandKernel takes the read lock, reads the
\* map and releases the lock when it returns the pointer; found tells
\* whether the pointer is nil, q is the cursor value a seek request carries
Looked(op, id, q, kind) ==
  [pc |-> "looked", op |-> op, id |-> id,
   found |-> getCommandKernel(commandClientMap, id) # NilKernel,
   q |-> q, kind |-> kind]

\* the registry as the request in progress sees it after its lookup: the
\* kernel it holds a pointer to, with the fields the kernel has by now, or
\* no kernel at all
Seen == IF qry.found THEN commandClientMap ELSE <<>>

\* a client calls the status endpoint: the lookup of the kernel
GetStatus(id) ==
  /\ qry = NoQuery
  /\ qry' = Looked("status", id, <<>>, "status")
  /\ UNCHANGED <<regVars, mu, upd, tailVars, seekVars, storeVars, runVars,
                 isoVars, libVars>>

\* the status endpoint reads the kernel its lookup returned and answers;
\* other steps may have been taken since the lookup
GetStatusAnswer ==
  /\ qry.pc = "looked"
  /\ qry.op = "status"
  /\ statusResp' = [id |-> qry.id, known |-> qry.found,
                    resp |-> Some(CtlGetCommandStatus(Seen, qry.id))]
  /\ qry' = NoQuery
  /\ UNCHANGED <<commandClientMap, proc, now, interruptResp, mu, upd,
                 tailVars, seekVars, storeVars, runVars, isoVars, libVars>>

----------------------------------------------------------------------------
(* The registry lock: the completion update, field by field under          *)
(* Controller.mu, and a status query that reads the fields of the kernel    *)
(* getCommandKernel returned.                                               *)

\* sync.RWMutex: RLock is granted while no writer holds the lock
RLockFree(m) == ~m.writer
\* sync.RWMutex: Lock is granted while nobody holds the lock
LockFree(m) == ~m.writer /\ m.readers = 0

\* the fields the completion update writes
MutableFields == {"running", "finishedAt", "exitCode", "errMsg"}
\* the fields a status is made of
StatusFields == MutableFields \cup {"startedAt"}

\* the value the completion update writes to a field
FinishedValue(field, exitCode, errMsg, t) ==
  CASE field = "running" -> FALSE
    [] field = "finishedAt" -> Some(t)
    [] field = "exitCode" -> exitCode
    [] field = "errMsg" -> errMsg

LockIdle ==
  /\ mu = [writer |-> FALSE, readers |-> 0]
  /\ upd = [s \in SessionIDs |-> [pc |-> "idle", pending |-> {}]]
  /\ qry = NoQuery

\* two running sessions, the second one already interrupted
LockInit ==
  /\ commandClientMap =
       storeCommandKernel(
         storeCommandKernel(<<>>, S1, NewKernel(S1, 101, FALSE, 1)),
         S2, NewKernel(S2, 102, TRUE, 1))
  /\ proc = [s \in SessionIDs |->
               [st |-> IF s = S1 THEN "alive" ELSE "signalled",
                code |-> None]]
  /\ now = 2
  /\ statusResp = NoStatusResp
  /\ interruptResp = ""
  /\ LockIdle

\* the completion update takes the write lock
UpdLock(s) ==
  /\ proc[s].st = "exited"
  /\ upd[s].pc = "idle"
  /\ LockFree(mu)
  /\ mu' = [mu EXCEPT !.writer = TRUE]
  /\ upd' = [upd EXCEPT ![s] = [pc |-> "writing", pending |-> MutableFields]]
  /\ UNCHANGED <<commandClientMap, proc, now, statusResp, interruptResp, qry,
                 tailVars, seekVars,
                 storeVars, runVars, isoVars, libVars>>

\* the completion update writes one of the fields it has not yet written
UpdWrite(s) ==
  \E field \in upd[s].pending :
    /\ upd[s].pc = "writing"
    /\ commandClientMap' =
         [commandClientMap EXCEPT ![s][field] =
            FinishedValue(field, proc[s].code, ExitErrMsg(proc[s].code), now)]
    /\ upd' = [upd EXCEPT ![s].pending = @ \ {field}]
    /\ UNCHANGED <<proc, now, statusResp, interruptResp, mu, qry, tailVars,
                   seekVars,
                 storeVars, runVars, isoVars, libVars>>

\* the completion update has written every field and releases the lock
UpdUnlock(s) ==
  /\ upd[s].pc = "writing"
  /\ upd[s].pending = {}
  /\ mu' = [mu EXCEPT !.writer = FALSE]
  /\ upd' = [upd EXCEPT ![s].pc = "done"]
  /\ proc' = [proc EXCEPT ![s].st = "reaped"]
  /\ now' = now + 1
  /\ UNCHANGED <<commandClientMap, statusResp, interruptResp, qry, tailVars,
                 seekVars,
                 storeVars, runVars, isoVars, libVars>>

\* a status query calls getCommandKernel, which takes the read lock and
\* looks the kernel up in the map
QryRLock(id) ==
  /\ qry.pc = "idle"
  /\ RLockFree(mu)
  /\ mu' = [mu EXCEPT !.readers = @ + 1]
  /\ qry' = [pc |-> "locked", id |-> id, pending |-> {},
             snap |-> getCommandKernel(commandClientMap, id)]
  /\ UNCHANGED <<regVars, upd, tailVars, seekVars,
                 storeVars, runVars, isoVars, libVars>>

\* getCommandKernel returns the pointer: its deferred RUnlock releases the
\* lock, and the fields of the kernel are still to be read
QryRUnlock ==
  /\ qry.pc = "locked"
  /\ mu' = [mu EXCEPT !.readers = @ - 1]
  /\ qry' = [qry EXCEPT !.pc = "reading",
                        !.pending = IF qry.snap = NilKernel THEN {}
                                    ELSE StatusFields]
  /\ UNCHANGED <<regVars, upd, tailVars, seekVars,
                 storeVars, runVars, isoVars, libVars>>

\* the query reads one field of the kernel through the pointer, the lock
\* being released
QryRead ==
  \E field \in qry.pending :
    /\ qry.pc = "reading"
    /\ qry' = [qry EXCEPT !.pending = @ \ {field},
                          !.snap[field] = commandClientMap[qry.id][field]]
    /\ UNCHANGED <<regVars, mu, upd, tailVars, seekVars,
                 storeVars, runVars, isoVars, libVars>>

\* the query has read every field and answers from what it has read
QryAnswer ==
  /\ qry.pc = "reading"
  /\ qry.pending = {}
  /\ statusResp' =
       [id |-> qry.id, known |-> qry.snap # NilKernel,
        resp |-> Some(CtlGetCommandStatus(
                        IF qry.snap = NilKernel THEN <<>>
                        ELSE storeCommandKernel(<<>>, qry.id, qry.snap),
                        qry.id))]
  /\ qry' = NoQuery
  /\ UNCHANGED <<commandClientMap, proc, now, interruptResp, mu, upd,
                 tailVars, seekVars, storeVars, runVars, isoVars, libVars>>

----------------------------------------------------------------------------
(* The register operation by itself: any caller, any sequence of calls. *)

\* pids of the kernels registered
Pids == {101, 102}

\* some caller registers a kernel under an id, new or not
Register(id) ==
  \E pid \in Pids, background \in BOOLEAN :
    LET kernel == NewKernel(id, pid, background, now) IN
    /\ commandClientMap' = storeCommandKernel(commandClientMap, id, kernel)
    /\ firstStored' = IF id \in DOMAIN firstStored THEN firstStored
                      ELSE [k \in DOMAIN firstStored \cup {id} |->
                              IF k = id THEN kernel ELSE firstStored[k]]
    /\ lastStored' = [k \in DOMAIN lastStored \cup {id} |->
                        IF k = id THEN kernel ELSE lastStored[k]]
    /\ dupStored' = IF id \in DOMAIN firstStored
                    THEN dupStored \cup {id} ELSE dupStored
    /\ UNCHANGED <<proc, now, statusResp, interruptResp, tailVars, seekVars,
                   lockVars, runVars, isoVars, libVars>>

----------------------------------------------------------------------------
(* The run endpoint: validation, output capture, registration and spawn. *)

\* most run requests the clients send
MaxRuns == 2

StatusInternalServerError == 500
ErrorCodeRuntimeError == "RuntimeError"

\* the commands and working directories of the requests: "" is a field
\* left out, "/gone" a directory that does not exist
Commands == {"", "ls"}
Cwds == {"", "/work", "/gone"}
UsableCwds == {"/work"}
Requests == [Command : Commands, Cwd : Cwds, Background : BOOLEAN]

\* RunCommandRequest.Validate: the error, "" for a valid request
Validate(request) ==
  IF request.Command = "" THEN "command is required"
  ELSE IF request.Cwd # "" /\ request.Cwd \notin UsableCwds
       THEN "working directory is not usable"
  ELSE ""

\* runtime.Command and runtime.BackgroundCommand
Command == "command"
BackgroundCommand == "background-command"

\* a mutant of buildExecuteCommandRequest: the background flag is ignored
buildExecuteCommandRequest_IgnoreBackground(request) ==
  [Language |-> Command, Code |-> request.Command, Cwd |-> request.Cwd]

\* CodeInterpretingController.buildExecuteCommandRequest
buildExecuteCommandRequest(request) ==
  IF request.Background
  THEN [Language |-> BackgroundCommand, Code |-> request.Command,
        Cwd |-> request.Cwd]
  ELSE [Language |-> Command, Code |-> request.Command, Cwd |-> request.Cwd]

\* a mutant of the run handler's checks: the validation result is ignored
RunCommandRejection_NoValidate(bodyOk, request) ==
  IF ~bodyOk
  THEN Some(RespondError(StatusBadRequest, ErrorCodeInvalidRequest,
                         "error parsing request, MAYBE invalid body format."))
  ELSE None

\* CodeInterpretingController.RunCommand up to the call of Execute: the
\* error answered for a body that does not parse or a request that does
\* not validate, None for a request that goes on to Execute
RunCommandRejection(bodyOk, request) ==
  IF ~bodyOk
  THEN Some(RespondError(StatusBadRequest, ErrorCodeInvalidRequest,
                         "error parsing request, MAYBE invalid body format."))
  ELSE IF Validate(request) # ""
       THEN Some(RespondError(StatusBadRequest, ErrorCodeInvalidRequest,
                              "invalid request, validation error"))
       ELSE None

\* os.OpenFile(path, O_RDWR|O_CREATE|O_TRUNC): the file exists and is empty
OpenFile(files, path) ==
  [q \in DOMAIN files \cup {path} |-> IF q = path THEN <<>> ELSE files[q]]

\* stdLogDescriptor: the two handles or the error, with the file system and
\* the set of open handles it leaves
stdLogDescriptor(files, open, session, outOk, errOk) ==
  IF ~outOk
  THEN [stdout |-> None, stderr |-> None, err |-> TRUE,
        files |-> files, open |-> open]
  ELSE LET files1 == OpenFile(files, stdoutFileName(session))
           open1 == open \cup {stdoutFileName(session)}
       IN IF ~errOk
          THEN [stdout |-> None, stderr |-> None, err |-> TRUE,
                files |-> files1, open |-> open1]
          ELSE [stdout |-> Some(stdoutFileName(session)),
                stderr |-> Some(stderrFileName(session)), err |-> FALSE,
                files |-> OpenFile(files1, stderrFileName(session)),
                open |-> open1 \cup {stderrFileName(session)}]

NoRun == [n |-> 0, outcome |-> "none", request |-> None, session |-> <<>>,
          execErr |-> FALSE, returned |-> FALSE, resp |-> None]

\* a client calls the run endpoint: the handler's checks, then Execute
\* opens the capture files and registers the kernel with running=true; the
\* spawn is still to come. ids is the set the session id is drawn from.
\* A request that is rejected is answered at once; Execute returns the
\* error of a failed open, which the handler has still to answer.
RunRequestOf(ids) ==
  \E bodyOk \in BOOLEAN, request \in Requests :
    /\ runResp.n < MaxRuns
    /\ LET rejection == RunCommandRejection(bodyOk, request) IN
       IF rejection # None
       THEN /\ runResp' = [n |-> runResp.n + 1, outcome |-> "rejected",
                           request |-> IF bodyOk THEN Some(request) ELSE None,
                           session |-> <<>>, execErr |-> FALSE,
                           returned |-> TRUE, resp |-> rejection]
            /\ UNCHANGED <<commandClientMap, proc, now, fs, handles>>
       ELSE \E s \in ids \ DOMAIN commandClientMap :
            \E outOk \in BOOLEAN, errOk \in BOOLEAN :
              LET exec == buildExecuteCommandRequest(request)
                  background == exec.Language = BackgroundCommand
                  d == stdLogDescriptor(fs, handles, s, outOk, errOk)
              IN /\ fs' = d.files
                 /\ handles' = d.open
                 /\ runResp' =
                      [n |-> runResp.n + 1,
                       outcome |-> IF d.err THEN "aborted" ELSE "registered",
                       request |-> Some(request), session |-> s,
                       execErr |-> d.err, returned |-> FALSE, resp |-> None]
                 /\ IF d.err
                    THEN UNCHANGED <<commandClientMap, proc, now>>
                    ELSE /\ commandClientMap' =
                              storeCommandKernel(commandClientMap, s,
                                NewKernel(s, 0, background, now))
                         /\ proc' = [proc EXCEPT ![s] =
                                      [st |-> "spawning", code |-> None]]
                         /\ now' = now + 1
    /\ UNCHANGED <<statusResp, interruptResp, query, acc, lastSeek, terminal,
                   tailVars, lockVars, storeVars,
                   isoVars, libVars>>

\* the run endpoint where the engine draws its session ids from SessionIDs
RunRequest == RunRequestOf(SessionIDs)

\* what the run in progress has come to, when it is the run of session s
Spawned(s, outcome, execErr) ==
  IF runResp.session = s /\ runResp.outcome = "registered"
  THEN [runResp EXCEPT !.outcome = outcome, !.execErr = execErr]
  ELSE runResp

\* Execute spawns the process of a registered session. The process starts
\* and the kernel learns its pid, or the spawn fails: the kernel is updated
\* to running=false with the error, the capture handles are closed, and
\* Execute returns the error or returns nil, which of the two the engine
\* does being left open.
RunSpawn(s) ==
  /\ proc[s].st = "spawning"
  /\ \/ /\ commandClientMap' =
             [commandClientMap EXCEPT
               ![s].pid = 100 + commandClientMap[s].startedAt]
        /\ proc' = [proc EXCEPT ![s].st = "alive"]
        /\ runResp' = Spawned(s, "started", FALSE)
        /\ UNCHANGED <<now, handles>>
     \/ \E execErr \in BOOLEAN :
          /\ commandClientMap' =
               markCommandFinished(commandClientMap, s, None, "spawn failed",
                                   now)
          /\ proc' = [proc EXCEPT ![s].st = "nospawn"]
          /\ now' = now + 1
          /\ handles' = handles \ {stdoutFileName(s), stderrFileName(s)}
          /\ runResp' = Spawned(s, "spawnfail", execErr)
  /\ UNCHANGED <<statusResp, interruptResp, fs, query, acc, lastSeek,
                 terminal, tailVars, lockVars, storeVars, isoVars, libVars>>

\* Execute has returned to the handler: at once after the spawn of a
\* background run, after the completion of the session in a foreground
\* run, with its error after a failure
ExecuteReturned ==
  \/ runResp.outcome \in {"aborted", "spawnfail"}
  \/ /\ runResp.outcome = "started"
     /\ \/ runResp.request[1].Background
        \/ proc[runResp.session].st = "reaped"

\* the run handler returns: it answers 500 RuntimeError for an error of
\* Execute and returns, or has slept flag.ApiGracefulShutdownTimeout after
\* Execute returned nil
RunReturn ==
  /\ ~runResp.returned
  /\ ExecuteReturned
  /\ runResp' =
       [runResp EXCEPT
          !.returned = TRUE,
          !.resp = IF runResp.execErr
                   THEN Some(RespondError(StatusInternalServerError,
                                          ErrorCodeRuntimeError,
                                          "error running commands"))
                   ELSE None]
  /\ UNCHANGED <<commandClientMap, proc, now, statusResp, interruptResp, fs,
                 query, acc, lastSeek, handles, terminal, tailVars, lockVars,
                 storeVars, isoVars, libVars>>

\* the monitoring path sees the exit, updates the kernel and closes the
\* capture handles of the session
EngineFinish(s) ==
  /\ proc[s].st = "exited"
  /\ commandClientMap' =
       markCommandFinished(commandClientMap, s, proc[s].code,
                           ExitErrMsg(proc[s].code), now)
  /\ proc' = [proc EXCEPT ![s].st = "reaped"]
  /\ now' = now + 1
  /\ handles' = handles \ {stdoutFileName(s), stderrFileName(s)}
  /\ UNCHANGED <<statusResp, interruptResp, runResp, terminal, tailVars,
                 seekVars, lockVars, storeVars,
                 isoVars, libVars>>

----------------------------------------------------------------------------
(* The foreground run: the engine waits for the process, has the tailer    *)
(* drain the capture file, updates the kernel and signals completion.      *)

\* the session of the foreground scenario
FgSession == S1

\* the state after a foreground Run of FgSession has started its tailer
FgInit ==
  /\ commandClientMap =
       storeCommandKernel(<<>>, FgSession, NewKernel(FgSession, 100, FALSE, 1))
  /\ proc = [s \in SessionIDs |->
               IF s = FgSession THEN [st |-> "alive", code |-> None]
               ELSE [st |-> "none", code |-> None]]
  /\ now = 2
  /\ statusResp = NoStatusResp
  /\ interruptResp = ""

\* the process exits; the engine's wait returns and it closes done
FgWait ==
  \E code \in ExitCodes :
    /\ ~done
    /\ proc[FgSession].st = "alive"
    /\ done' = TRUE
    /\ proc' = [proc EXCEPT ![FgSession] =
                  [st |-> "exited", code |-> Some(code)]]
    /\ UNCHANGED <<file, lastPos, tailPc, delivered, lastCycle, polls,
                   readFailed, scan, commandClientMap, now, statusResp,
                   interruptResp, seekVars, engVars>>

\* the tailer has returned from its final drain: the engine updates the
\* kernel
FgUpdate ==
  /\ tailPc = "returned"
  /\ proc[FgSession].st = "exited"
  /\ commandClientMap' =
       markCommandFinished(commandClientMap, FgSession, proc[FgSession].code,
                           ExitErrMsg(proc[FgSession].code), now)
  /\ proc' = [proc EXCEPT ![FgSession].st = "reaped"]
  /\ now' = now + 1
  /\ UNCHANGED <<statusResp, interruptResp, tailVars, seekVars, engVars>>

\* the engine signals completion: the terminal event goes to the hook, after
\* the events delivered so far
FgComplete ==
  /\ proc[FgSession].st = "reaped"
  /\ terminal = None
  /\ terminal' = Some([exitCode |-> commandClientMap[FgSession].exitCode,
                       errMsg |-> commandClientMap[FgSession].errMsg,
                       after |-> Len(delivered)])
  /\ UNCHANGED <<handles, runResp, tailVars, regVars, seekVars, lockVars,
                 storeVars, isoVars, libVars>>

----------------------------------------------------------------------------
(* The seek-output endpoint: cursor-based reading of a background session. *)

\* longest output the background process writes
MaxOutLen == 4
\* largest cursor a client sends on its own
MaxCursor == 11

OutByte == {"a", "b"}

Digits == <<"0", "1", "2", "3", "4", "5", "6", "7", "8", "9">>
IsDigit(c) == \E i \in 1..10 : Digits[i] = c
DigitVal(c) == (CHOOSE i \in 1..10 : Digits[i] = c) - 1

\* strconv.FormatInt(n, 10) for n >= 0: the decimal digits
RECURSIVE FormatUint(_)
FormatUint(n) ==
  IF n < 10 THEN <<Digits[n + 1]>>
  ELSE FormatUint(n \div 10) \o <<Digits[(n % 10) + 1]>>

\* strconv.FormatInt(n, 10)
FormatInt(n) == IF n < 0 THEN <<"-">> \o FormatUint(0 - n) ELSE FormatUint(n)

\* the value of a sequence of decimal digits
RECURSIVE DigitsValue(_)
DigitsValue(d) ==
  IF d = <<>> THEN 0
  ELSE 10 * DigitsValue(SubSeq(d, 1, Len(d) - 1)) + DigitVal(d[Len(d)])

\* the decimal digits of 1<<63, the cutoff of strconv.ParseInt for 64 bits:
\* a magnitude up to cutoff - 1 is in range, and cutoff itself when negative
Cutoff64 ==
  <<"9", "2", "2", "3", "3", "7", "2", "0", "3", "6",
    "8", "5", "4", "7", "7", "5", "8", "0", "8">>

\* a sequence of digits without its leading zeros
RECURSIVE TrimZeros(_)
TrimZeros(d) ==
  IF d # <<>> /\ d[1] = "0" THEN TrimZeros(Tail(d)) ELSE d

\* the number written a is smaller than the number written b, digit by digit
DigitsBelow(a, b) ==
  LET x == TrimZeros(a)
      y == TrimZeros(b)
  IN \/ Len(x) < Len(y)
     \/ /\ Len(x) = Len(y)
        /\ \E i \in 1..Len(x) :
             /\ DigitVal(x[i]) < DigitVal(y[i])
             /\ \A j \in 1..(i - 1) : x[j] = y[j]

\* a mutant of ParseInt: a sign is a syntax error
ParseInt_Unsigned(s) ==
  IF s = <<>> \/ \E i \in 1..Len(s) : ~IsDigit(s[i])
  THEN [err |-> TRUE, val |-> 0]
  ELSE IF ~DigitsBelow(s, Cutoff64)
       THEN [err |-> TRUE, val |-> 0]
       ELSE [err |-> FALSE, val |-> DigitsValue(s)]

\* strconv.ParseInt(s, 10, 64): an optional sign, then one or more digits
\* (ErrSyntax otherwise); a value outside the signed 64 bits is ErrRange.
\* The range is tested on the digits, the value is computed for the
\* magnitudes the model's integers hold.
ParseInt(s) ==
  LET signed == s # <<>> /\ s[1] \in {"+", "-"}
      neg == signed /\ s[1] = "-"
      d == IF signed THEN Tail(s) ELSE s
  IN IF d = <<>> \/ \E i \in 1..Len(d) : ~IsDigit(d[i])
     THEN [err |-> TRUE, val |-> 0]
     ELSE IF ~(DigitsBelow(d, Cutoff64) \/ (neg /\ TrimZeros(d) = Cutoff64))
          THEN [err |-> TRUE, val |-> 0]
          ELSE [err |-> FALSE,
                val |-> IF neg THEN 0 - DigitsValue(d) ELSE DigitsValue(d)]

\* a mutant of QueryInt64: the error test is inverted
QueryInt64_Inverted(q, defaultValue) ==
  IF ~ParseInt(q).err THEN defaultValue ELSE ParseInt(q).val

\* basicController.QueryInt64
QueryInt64(q, defaultValue) ==
  IF ParseInt(q).err THEN defaultValue ELSE ParseInt(q).val

\* what the runtime may answer to a negative cursor of a known session: the
\* cursor is an offset returned by an earlier call or 0, and a negative one
\* is given no meaning; the answer is an error, the output from its start,
\* or nothing with the cursor unchanged
NegativeCursorOutcomes == {"error", "start", "empty"}
\* the outcomes of a call with the cursor query value q: a cursor from 0 on
\* has the one outcome defined for it
OutcomesOf(q) ==
  IF QueryInt64(q, 0) < 0 THEN NegativeCursorOutcomes ELSE {"none"}

\* runtime SeekBackgroundCommandOutput: the output from cursor to the end of
\* the session's stdout file and the new cursor; a cursor at or beyond the
\* end yields nothing and the cursor unchanged; negative is the outcome a
\* negative cursor has
SeekBackgroundCommandOutput(m, files, session, cursor, negative) ==
  LET kernel == getCommandKernel(m, session) IN
  IF kernel = NilKernel
  THEN [err |-> "command not found", output |-> <<>>, cursor |-> 0 - 1]
  ELSE LET f == files[kernel.stdoutPath] IN
       IF cursor < 0
       THEN CASE negative = "error" ->
                   [err |-> "invalid cursor", output |-> <<>>,
                    cursor |-> 0 - 1]
              [] negative = "start" ->
                   [err |-> "", output |-> f, cursor |-> Len(f)]
              [] negative = "empty" ->
                   [err |-> "", output |-> <<>>, cursor |-> cursor]
       ELSE IF cursor >= Len(f)
       THEN [err |-> "", output |-> <<>>, cursor |-> cursor]
       ELSE [err |-> "", output |-> SubSeq(f, cursor + 1, Len(f)),
             cursor |-> Len(f)]

\* a mutant of the seek-output handler: the cursor header carries the number
\* of bytes returned
CtlGetBackgroundCommandOutput_LenHeader(m, files, id, q, negative) ==
  IF id = <<>>
  THEN RespondError(StatusBadRequest, ErrorCodeMissingQuery,
                    "missing command execution id")
  ELSE LET cursor == QueryInt64(q, 0)
           r == SeekBackgroundCommandOutput(m, files, id, cursor, negative)
       IN IF r.err # ""
          THEN RespondError(StatusBadRequest, ErrorCodeInvalidRequest, r.err)
          ELSE [status |-> StatusOK, error |-> None, data |-> None,
                header |-> Some(FormatInt(Len(r.output))),
                body |-> Some(r.output)]

\* a mutant of the seek-output handler: a failed seek is answered as a
\* runtime error
CtlGetBackgroundCommandOutput_RuntimeError(m, files, id, q, negative) ==
  IF id = <<>>
  THEN RespondError(StatusBadRequest, ErrorCodeMissingQuery,
                    "missing command execution id")
  ELSE LET cursor == QueryInt64(q, 0)
           r == SeekBackgroundCommandOutput(m, files, id, cursor, negative)
       IN IF r.err # ""
          THEN RespondError(StatusInternalServerError, ErrorCodeRuntimeError,
                            r.err)
          ELSE [status |-> StatusOK, error |-> None, data |-> None,
                header |-> Some(FormatInt(r.cursor)),
                body |-> Some(r.output)]

\* CodeInterpretingController.GetBackgroundCommandOutput: header is the value
\* of EXECD-COMMANDS-TAIL-CURSOR, body the plain-text body
CtlGetBackgroundCommandOutput(m, files, id, q, negative) ==
  IF id = <<>>
  THEN RespondError(StatusBadRequest, ErrorCodeMissingQuery,
                    "missing command execution id")
  ELSE LET cursor == QueryInt64(q, 0)
           r == SeekBackgroundCommandOutput(m, files, id, cursor, negative)
       IN IF r.err # ""
          THEN RespondError(StatusBadRequest, ErrorCodeInvalidRequest, r.err)
          ELSE [status |-> StatusOK, error |-> None, data |-> None,
                header |-> Some(FormatInt(r.cursor)),
                body |-> Some(r.output)]

\* the background session of the seek scenario
BgSession == S1
BgStdout == stdoutFileName(BgSession)

NoSeek == [id |-> <<>>, cursor |-> 0, len |-> 0, follow |-> FALSE,
           known |-> FALSE, exited |-> FALSE, resp |-> None]

\* the state after a background Run of BgSession
SeekInit ==
  /\ commandClientMap =
       storeCommandKernel(<<>>, BgSession, NewKernel(BgSession, 100, TRUE, 1))
  /\ proc = [s \in SessionIDs |->
               IF s = BgSession THEN [st |-> "alive", code |-> None]
               ELSE [st |-> "none", code |-> None]]
  /\ now = 2
  /\ statusResp = NoStatusResp
  /\ interruptResp = ""
  /\ fs = (BgStdout :> <<>>)
  /\ query = <<"0">>
  /\ acc = <<>>
  /\ lastSeek = NoSeek

SeekIdle ==
  /\ fs = <<>>
  /\ query = <<>>
  /\ acc = <<>>
  /\ lastSeek = NoSeek

\* the background process appends one byte to its stdout file
ProcWrites(s) ==
  \E b \in OutByte :
    /\ proc[s].st \in {"alive", "signalled"}
    /\ Len(fs[stdoutFileName(s)]) < MaxOutLen
    /\ fs' = [fs EXCEPT ![stdoutFileName(s)] = Append(@, b)]
    /\ UNCHANGED <<query, acc, lastSeek, tailVars, regVars, engVars>>

SeekRecord(id, cursor, follow, resp) ==
  [id |-> id, cursor |-> cursor, follow |-> follow,
   len |-> Len(fs[BgStdout]),
   known |-> id \in DOMAIN commandClientMap,
   exited |-> proc[BgSession].st \in {"exited", "reaped"},
   resp |-> Some(resp)]

\* the single reader calls the endpoint with the cursor of its previous
\* call: the lookup of the kernel
SeekFollow ==
  /\ qry = NoQuery
  /\ qry' = Looked("seek", BgSession, query, "follow")
  /\ UNCHANGED <<regVars, mu, upd, tailVars, seekVars, storeVars, runVars,
                 isoVars, libVars>>

\* the cursors tried, from below 0 to beyond the end of the output: an
\* unknown session is answered alike for every cursor
ProbeCursors(id) ==
  IF id \in DOMAIN commandClientMap THEN (0 - 1)..MaxCursor
  ELSE {0, MaxCursor}

\* some client calls the endpoint with a cursor of its own choice: the
\* lookup of the kernel
SeekProbe ==
  \E id \in {BgSession, UnknownID} :
  \E c \in ProbeCursors(id) :
    /\ qry = NoQuery
    /\ qry' = Looked("seek", id, FormatInt(c), "probe")
    /\ UNCHANGED <<regVars, mu, upd, tailVars, seekVars, storeVars, runVars,
                   isoVars, libVars>>

\* a client calls the seek-output endpoint with id and the cursor query value
\* q ("" when the parameter is missing): the lookup of the kernel
SeekRequest(ids, queries) ==
  \E id \in ids, q \in queries :
    /\ qry = NoQuery
    /\ qry' = Looked("seek", id, q, "request")
    /\ UNCHANGED <<regVars, mu, upd, tailVars, seekVars, storeVars, runVars,
                   isoVars, libVars>>

\* what is kept of a call a client made with a cursor value of its own:
\* cursor is the value the handler passes to SeekBackgroundCommandOutput,
\* negative the outcome a negative cursor has
RequestRecord(negative) ==
  LET cursor == QueryInt64(qry.q, 0) IN
  [id |-> qry.id, q |-> qry.q, cursor |-> cursor, follow |-> FALSE,
   len |-> IF qry.found THEN Len(fs[stdoutFileName(qry.id)]) ELSE 0,
   known |-> qry.found,
   exited |-> qry.found /\ proc[qry.id].st \in {"exited", "reaped"},
   resp |-> Some(CtlGetBackgroundCommandOutput(Seen, fs, qry.id, qry.q,
                                               negative))]

\* the seek-output endpoint reads the stdout file of the kernel its lookup
\* returned and answers; other steps, appends of the process among them,
\* may have been taken since the lookup
SeekAnswer ==
  /\ qry.pc = "looked"
  /\ qry.op = "seek"
  /\ qry' = NoQuery
  /\ \E negative \in OutcomesOf(qry.q) :
       IF qry.kind = "request"
       THEN /\ lastSeek' = RequestRecord(negative)
            /\ UNCHANGED <<acc, query>>
       ELSE LET resp == CtlGetBackgroundCommandOutput(Seen, fs, qry.id, qry.q,
                                                      negative)
            IN /\ lastSeek' = [SeekRecord(qry.id, QueryInt64(qry.q, 0),
                                          qry.kind = "follow", resp)
                                 EXCEPT !.known = qry.found]
               /\ IF qry.kind = "follow" /\ resp.status = StatusOK
                  THEN /\ acc' = acc \o resp.body[1]
                       /\ query' = resp.header[1]
                  ELSE UNCHANGED <<acc, query>>
  /\ UNCHANGED <<fs, regVars, mu, upd, tailVars, storeVars, runVars,
                 isoVars, libVars>>

----------------------------------------------------------------------------
(* The specifications. *)

TailIdle ==
  /\ file = <<>>
  /\ done = FALSE
  /\ lastPos = 0
  /\ tailPc = "idle"
  /\ delivered = <<>>
  /\ lastCycle = NoCycle
  /\ polls = 0
  /\ readFailed = FALSE
  /\ scan = NoScan

StoreIdle ==
  /\ firstStored = <<>>
  /\ lastStored = <<>>
  /\ dupStored = {}

RunIdle ==
  /\ handles = {}
  /\ runResp = NoRun
  /\ terminal = None

\* no poll of a session's tailer is under way.  startPos: the offset the
\* readFromPos call was given; scanner: its scanner between two Reads
NoPoll == [pc |-> "idle", startPos |-> 0, scanner |-> NewScanner(0)]

\* no tailer has read anything
IsoIdle ==
  /\ tailPos = [s \in SessionIDs |-> 0]
  /\ tailScan = [s \in SessionIDs |-> NoPoll]

NoEval == [fn |-> "none"]
NoReady == [pc |-> "idle"]
NoCreate == [pc |-> "idle"]

LibIdle ==
  /\ eval = NoEval
  /\ ready = NoReady
  /\ create = NoCreate

EngIdle == LockIdle /\ StoreIdle /\ RunIdle /\ IsoIdle /\ LibIdle

\* one foreground tailer against one growing capture file
SpecTailInit == TailInit /\ RegInit /\ SeekIdle /\ EngIdle
SpecTailNext ==
  \/ ProcAppend
  \/ ProcFinish
  \/ TailTick
  \/ TailRead
  \/ TailAssign
  \/ TailDone
SpecTail == SpecTailInit /\ [][SpecTailNext]_vars

\* the registry, the processes and the status endpoint
SpecRegInit == TailIdle /\ RegInit /\ SeekIdle /\ EngIdle
SpecRegNext ==
  \/ \E s \in SessionIDs : RunCommand(s)
  \/ \E s \in SessionIDs : RunSpawn(s)
  \/ \E s \in SessionIDs : ProcExits(s)
  \/ \E s \in SessionIDs : ProcKilled(s)
  \/ \E s \in SessionIDs : MonitorFinish(s)
  \/ \E id \in QueryIDs : Interrupt(id)
  \/ \E id \in QueryIDs : GetStatus(id)
  \/ GetStatusAnswer
SpecReg == SpecRegInit /\ [][SpecRegNext]_vars

\* the registry where the completion of a session may be noticed twice
SpecNoticeNext == SpecRegNext \/ \E s \in SessionIDs : CompletionAgain(s)
SpecNotice == SpecRegInit /\ [][SpecNoticeNext]_vars

\* an interrupted process dies: it exits by itself or is killed
ProcDies(s) == proc[s].st = "signalled" /\ (ProcExits(s) \/ ProcKilled(s))

\* the registry with processes that obey a termination request and a
\* monitoring path that runs
SpecRegFair ==
  /\ SpecRegInit
  /\ [][SpecRegNext]_vars
  /\ \A s \in SessionIDs : WF_vars(ProcDies(s)) /\ WF_vars(MonitorFinish(s))

\* one background session, its output and the single reader that follows it
SpecSeekInit == TailIdle /\ SeekInit /\ EngIdle
SpecSeekNext ==
  \/ ProcWrites(BgSession)
  \/ ProcExits(BgSession)
  \/ MonitorFinish(BgSession)
  \/ SeekFollow
  \/ SeekAnswer
SpecSeek == SpecSeekInit /\ [][SpecSeekNext]_vars

\* one background session, its output and clients that send any cursor
SpecProbeInit == TailIdle /\ SeekInit /\ EngIdle
SpecProbeNext ==
  \/ ProcWrites(BgSession)
  \/ ProcExits(BgSession)
  \/ MonitorFinish(BgSession)
  \/ SeekProbe
  \/ SeekAnswer
SpecProbe == SpecProbeInit /\ [][SpecProbeNext]_vars

\* two sessions whose completion updates race with status queries
SpecLockInit ==
  TailIdle /\ LockInit /\ SeekIdle /\ StoreIdle /\ RunIdle /\ IsoIdle /\ LibIdle
SpecLockNext ==
  \/ \E s \in SessionIDs : ProcExits(s)
  \/ \E s \in SessionIDs : ProcKilled(s)
  \/ \E s \in SessionIDs : UpdLock(s)
  \/ \E s \in SessionIDs : UpdWrite(s)
  \/ \E s \in SessionIDs : UpdUnlock(s)
  \/ \E id \in QueryIDs : QryRLock(id)
  \/ QryRUnlock
  \/ QryRead
  \/ QryAnswer
SpecLock == SpecLockInit /\ [][SpecLockNext]_vars

\* callers that register kernels under any id, in any order
SpecStoreInit == TailIdle /\ RegInit /\ SeekIdle /\ EngIdle
SpecStoreNext == \E id \in SessionIDs : Register(id)
SpecStore == SpecStoreInit /\ [][SpecStoreNext]_vars

\* the state before any run: one file is left over from an earlier daemon
RunInit ==
  /\ fs = (stdoutFileName(S2) :> <<"a">>)
  /\ query = <<>>
  /\ acc = <<>>
  /\ lastSeek = NoSeek
  /\ handles = {}
  /\ runResp = NoRun
  /\ terminal = None

\* clients of the run endpoint, the processes and the monitoring path
SpecRunInit ==
  TailIdle /\ RegInit /\ LockIdle /\ StoreIdle /\ RunInit /\ IsoIdle /\ LibIdle
SpecRunNext ==
  \/ RunRequest
  \/ \E s \in SessionIDs : RunSpawn(s)
  \/ RunReturn
  \/ \E s \in SessionIDs : ProcExits(s)
  \/ \E s \in SessionIDs : EngineFinish(s)
  \/ \E id \in QueryIDs : GetStatus(id)
  \/ GetStatusAnswer
SpecRun == SpecRunInit /\ [][SpecRunNext]_vars

\* one foreground run: the process, its tailer and the engine
SpecFgInit == TailInit /\ FgInit /\ SeekIdle /\ EngIdle
SpecFgNext ==
  \/ ProcAppend
  \/ FgWait
  \/ TailTick
  \/ TailRead
  \/ TailAssign
  \/ TailDone
  \/ FgUpdate
  \/ FgComplete
SpecFg == SpecFgInit /\ [][SpecFgNext]_vars

\* the run endpoint with a monitoring path that runs, and clients that ask
\* for the status of one session
SpecRunFairNext ==
  \/ RunRequest
  \/ \E s \in SessionIDs : RunSpawn(s)
  \/ RunReturn
  \/ \E s \in SessionIDs : ProcExits(s)
  \/ \E s \in SessionIDs : EngineFinish(s)
  \/ GetStatus(BgSession)
  \/ GetStatusAnswer
SpecRunFair ==
  /\ SpecRunInit
  /\ [][SpecRunFairNext]_vars
  /\ \A s \in SessionIDs : WF_vars(EngineFinish(s))

----------------------------------------------------------------------------
(* The output paths as a function of the session id.                        *)

MaxIdLen == 2
\* the characters of a session id: a letter, the separator and the dot
IdChars == {"a", Separator, "."}
\* sessionID is an opaque string: every string over IdChars up to MaxIdLen
IdStrings == UNION {[1..n -> IdChars] : n \in 0..MaxIdLen}

\* the three paths of a session
OutputPaths(session) ==
  [stdout |-> stdoutFileName(session), stderr |-> stderrFileName(session),
   combined |-> combinedOutputFileName(session)]

\* the paths of two sessions are computed
PathCall ==
  \E a \in IdStrings, b \in IdStrings :
    /\ eval' = [fn |-> "paths", a |-> a, b |-> b, pa |-> OutputPaths(a),
                pb |-> OutputPaths(b)]
    /\ UNCHANGED <<ready, create, tailVars, regVars, seekVars, lockVars, storeVars,
                   runVars, isoVars>>

SpecPathInit ==
  TailIdle /\ RegInit /\ SeekIdle /\ EngIdle
SpecPathNext == PathCall
SpecPath == SpecPathInit /\ [][SpecPathNext]_vars

----------------------------------------------------------------------------
(* Two sessions side by side: their runs, outputs, tailers and completions. *)

\* most bytes in a capture file of the two sessions
MaxIsoLen == 2

IsoInit ==
  /\ commandClientMap = <<>>
  /\ proc = [s \in IsoIDs |-> [st |-> "none", code |-> None]]
  /\ now = 1
  /\ statusResp = NoStatusResp
  /\ interruptResp = ""
  /\ tailPos = [s \in IsoIDs |-> 0]
  /\ tailScan = [s \in IsoIDs |-> NoPoll]

\* the process of session s appends one byte to its stdout file
IsoWrites(s) ==
  \E b \in {"a", LF} :
    /\ proc[s].st \in {"alive", "signalled"}
    /\ Len(fs[stdoutFileName(s)]) < MaxIsoLen
    /\ fs' = [fs EXCEPT ![stdoutFileName(s)] = Append(@, b)]
    /\ UNCHANGED <<query, acc, lastSeek, tailVars, regVars, lockVars,
                   storeVars, runVars, isoVars, libVars>>

\* one step of the readFromPos call of session s's poll: os.Open fails and
\* the call returns, or the scanner reads the file as it is at that moment.
\* When the scan has ended the call returns and tailStdPipe assigns what it
\* returned; else the poll goes on with the next Read.
PollStep(s, call, openOk) ==
  LET t == IF openOk THEN ScanRead(fs[stdoutFileName(s)], call.scanner)
           ELSE call.scanner
      ended == ~openOk \/ ScanEnded(t)
  IN
  /\ tailPos' =
       IF ended
       THEN [tailPos EXCEPT
               ![s] = readFromPos_Return(t, openOk, call.startPos).ret]
       ELSE tailPos
  /\ tailScan' =
       [tailScan EXCEPT
          ![s] = IF ended THEN NoPoll
                 ELSE [pc |-> "reading", startPos |-> call.startPos,
                       scanner |-> [t EXCEPT !.toks = <<>>]]]

\* the stdout tailer of session s polls: tailStdPipe, case <-ticker.C.
\* readFromPos is called with the tailer's offset; it returns at once when
\* os.Open fails, else it seeks and its scanner reads for the first time
TailPoll(s) ==
  \E openOk \in BOOLEAN :
    /\ s \in DOMAIN commandClientMap
    /\ commandClientMap[s].running
    /\ tailScan[s].pc = "idle"
    /\ PollStep(s, [NoPoll EXCEPT !.startPos = tailPos[s],
                                  !.scanner = NewScanner(tailPos[s])],
                openOk)
    /\ UNCHANGED <<tailVars, regVars, seekVars, lockVars, storeVars, runVars,
                   libVars>>

\* the scanner of session s's poll reads again; runs and writes of the
\* processes may have changed the file since its last Read
TailPollRead(s) ==
  /\ tailScan[s].pc = "reading"
  /\ PollStep(s, tailScan[s], TRUE)
  /\ UNCHANGED <<tailVars, regVars, seekVars, lockVars, storeVars, runVars,
                 libVars>>

\* what the clients of the two sessions send: a body that cannot be parsed,
\* or a request for a background run that names no working directory
IsoRequests ==
  {None} \cup {Some(r) : r \in {q \in Requests : q.Cwd = "" /\ q.Background}}

SpecIsoInit ==
  TailIdle /\ IsoInit /\ SeekIdle /\ LockIdle /\ StoreIdle /\ RunIdle /\ LibIdle
SpecIsoNext ==
  \/ RunRequestOf(IsoIDs) /\ runResp'.request \in IsoRequests
  \/ \E s \in IsoIDs : RunSpawn(s)
  \/ RunReturn
  \/ \E s \in IsoIDs : IsoWrites(s)
  \/ \E s \in IsoIDs : TailPoll(s)
  \/ \E s \in IsoIDs : TailPollRead(s)
  \/ \E s \in IsoIDs : ProcExits(s)
  \/ \E s \in IsoIDs : EngineFinish(s)
  \/ \E s \in IsoIDs : Interrupt(s)
SpecIso == SpecIsoInit /\ [][SpecIsoNext]_vars

----------------------------------------------------------------------------
(* The capture files of registered sessions under runs, appends and        *)
(* further opens of the output descriptors.                                *)

\* stdLogDescriptor is called again for a session that is registered
OpenDescriptors(s) ==
  \E outOk \in BOOLEAN, errOk \in BOOLEAN :
    /\ s \in DOMAIN commandClientMap
    /\ LET d == stdLogDescriptor(fs, handles, s, outOk, errOk) IN
       /\ fs' = d.files
       /\ handles' = d.open
    /\ UNCHANGED <<query, acc, lastSeek, runResp, terminal, tailVars, regVars,
                   lockVars, storeVars, isoVars, libVars>>

SpecOpenInit == SpecRunInit
SpecOpenNext ==
  \/ RunRequest
  \/ \E s \in SessionIDs : RunSpawn(s)
  \/ RunReturn
  \/ \E s \in SessionIDs : IsoWrites(s)
  \/ \E s \in SessionIDs : ProcExits(s)
  \/ \E s \in SessionIDs : EngineFinish(s)
  \/ \E s \in SessionIDs : OpenDescriptors(s)
SpecOpen == SpecOpenInit /\ [][SpecOpenNext]_vars

----------------------------------------------------------------------------
(* Interrupt, GetStatus and SeekOutput step by step: the lookup under the  *)
(* read lock, its release, then the operation on what the lookup returned. *)

\* the operations that look a kernel up
Operations == {"interrupt", "status", "seek"}
\* the ids they are called with: the session whose foreground Run is
\* blocked on its process, and an id that is not registered
WaitIDs == {S1, UnknownID}

\* a foreground session whose Run is blocked on its process, with output,
\* and a background session that was interrupted
WaitInit ==
  /\ LockInit
  /\ fs = (stdoutFileName(S1) :> <<"a">>) @@ (stdoutFileName(S2) :> <<>>)
  /\ query = <<"0">>
  /\ acc = <<>>
  /\ lastSeek = NoSeek

\* getCommandKernel: c.mu.RLock() and the map lookup
OpRLock(op, id) ==
  /\ qry.pc = "idle"
  /\ RLockFree(mu)
  /\ mu' = [mu EXCEPT !.readers = @ + 1]
  /\ qry' = [pc |-> "locked", op |-> op, id |-> id, pending |-> {},
             snap |-> getCommandKernel(commandClientMap, id), steps |-> 1]
  /\ UNCHANGED <<regVars, upd, tailVars, seekVars, storeVars, runVars,
                 isoVars, libVars>>

\* a mutant of the release: the lock is kept until the process is gone
OpRUnlock_AfterExit ==
  /\ qry.pc = "locked"
  /\ qry.snap # NilKernel => proc[qry.id].st \notin {"alive", "signalled"}
  /\ mu' = [mu EXCEPT !.readers = @ - 1]
  /\ qry' = [qry EXCEPT !.pc = "found", !.steps = @ + 1]
  /\ UNCHANGED <<regVars, upd, tailVars, seekVars, storeVars, runVars,
                 isoVars, libVars>>

\* getCommandKernel returns: the deferred c.mu.RUnlock()
OpRUnlock ==
  /\ qry.pc = "locked"
  /\ mu' = [mu EXCEPT !.readers = @ - 1]
  /\ qry' = [qry EXCEPT !.pc = "found", !.steps = @ + 1]
  /\ UNCHANGED <<regVars, upd, tailVars, seekVars, storeVars, runVars,
                 isoVars, libVars>>

\* the registry as the operation sees it: the kernel its lookup returned
Found == IF qry.snap = NilKernel THEN <<>>
         ELSE storeCommandKernel(<<>>, qry.id, qry.snap)

\* the operation acts on the kernel it found and returns: Interrupt asks
\* the process to terminate, GetStatus and SeekOutput answer
OpFinish ==
  /\ qry.pc = "found"
  /\ qry' = NoQuery
  /\ CASE qry.op = "interrupt" ->
            /\ interruptResp' = IF qry.snap = NilKernel THEN "NotFound"
                                ELSE "ok"
            /\ proc' = IF /\ qry.snap # NilKernel
                          /\ qry.snap.running
                          /\ proc[qry.id].st = "alive"
                       THEN [proc EXCEPT ![qry.id].st = "signalled"]
                       ELSE proc
            /\ UNCHANGED <<statusResp, lastSeek>>
       [] qry.op = "status" ->
            /\ statusResp' = [id |-> qry.id, known |-> qry.snap # NilKernel,
                              resp |-> Some(CtlGetCommandStatus(Found, qry.id))]
            /\ UNCHANGED <<interruptResp, proc, lastSeek>>
       [] qry.op = "seek" ->
            /\ \E negative \in OutcomesOf(query) :
                 lastSeek' =
                   SeekRecord(qry.id, QueryInt64(query, 0), FALSE,
                              CtlGetBackgroundCommandOutput(Found, fs, qry.id,
                                                            query, negative))
            /\ UNCHANGED <<interruptResp, proc, statusResp>>
  /\ UNCHANGED <<commandClientMap, now, fs, query, acc, mu, upd, tailVars,
                 storeVars, runVars, isoVars, libVars>>

SpecWaitInit ==
  TailIdle /\ WaitInit /\ StoreIdle /\ RunIdle /\ IsoIdle /\ LibIdle
SpecWaitNext ==
  \/ \E s \in SessionIDs : ProcExits(s)
  \/ \E s \in SessionIDs : ProcKilled(s)
  \/ UpdLock(S2)
  \/ UpdWrite(S2)
  \/ UpdUnlock(S2)
  \/ \E op \in Operations, id \in WaitIDs : OpRLock(op, id)
  \/ OpRUnlock
  \/ OpFinish
\* the operations run; nothing is assumed of the processes or the updates
SpecWait ==
  /\ SpecWaitInit
  /\ [][SpecWaitNext]_vars
  /\ WF_vars(OpRUnlock)
  /\ WF_vars(OpFinish)

----------------------------------------------------------------------------
(* The egress policy: ParsePolicy, ensureDefaults, Evaluate, matchesDomain *)
(* (policy.go).  A Go string is a sequence of one-character strings.       *)

\* unicode.IsSpace: the white space of Latin-1 and of the other scripts; a
\* character that is not printable ASCII is written U+ and its code point
WhiteSpace ==
  {" ", "\t", "\n", "\r", "\f", "U+000B", "U+0085", "U+00A0", "U+1680",
   "U+2000", "U+2001", "U+2002", "U+2003", "U+2004", "U+2005", "U+2006",
   "U+2007", "U+2008", "U+2009", "U+200A", "U+2028", "U+2029", "U+202F",
   "U+205F", "U+3000"}

RECURSIVE TrimLeft(_)
TrimLeft(s) ==
  IF s # <<>> /\ s[1] \in WhiteSpace THEN TrimLeft(Tail(s)) ELSE s

RECURSIVE TrimRight(_)
TrimRight(s) ==
  IF s # <<>> /\ s[Len(s)] \in WhiteSpace
  THEN TrimRight(SubSeq(s, 1, Len(s) - 1)) ELSE s

\* strings.TrimSpace
TrimSpace(s) == TrimRight(TrimLeft(s))

UpperCase == <<"A", "B", "C", "D", "E", "F", "G", "H", "I", "J", "K", "L", "M",
              "N", "O", "P", "Q", "R", "S", "T", "U", "V", "W", "X", "Y", "Z">>
LowerCase == <<"a", "b", "c", "d", "e", "f", "g", "h", "i", "j", "k", "l", "m",
              "n", "o", "p", "q", "r", "s", "t", "u", "v", "w", "x", "y", "z">>

\* the lower-case letter of every upper-case letter
LowerOf ==
  [c \in {UpperCase[i] : i \in 1..26} |->
     LowerCase[CHOOSE i \in 1..26 : UpperCase[i] = c]]

\* the function that maps the first character of each of the pairs lo..hi
\* to the second
RECURSIVE PairsFcn(_, _, _)
PairsFcn(pairs, lo, hi) ==
  IF lo = hi THEN pairs[lo][1] :> pairs[lo][2]
  ELSE LET mid == (lo + hi) \div 2
       IN PairsFcn(pairs, lo, mid) @@ PairsFcn(pairs, mid + 1, hi)
\* the function that maps the first character of every pair to the second
FcnOf(pairs) == PairsFcn(pairs, 1, Len(pairs))
\* what the table gives for c: a character the table does not hold is kept
Mapped(table, c) == IF c \in DOMAIN table THEN table[c] ELSE c

\* unicode.ToLower outside ASCII: every character that has a lower case of
\* its own, with that lower case (the simple lower-case mappings of the
\* Unicode character database). A character outside ASCII is written by
\* its code point.
LowerPairs ==
  <<<<"U+00C0", "U+00E0">>, <<"U+00C1", "U+00E1">>, <<"U+00C2", "U+00E2">>,
    <<"U+00C3", "U+00E3">>, <<"U+00C4", "U+00E4">>, <<"U+00C5", "U+00E5">>,
    <<"U+00C6", "U+00E6">>, <<"U+00C7", "U+00E7">>, <<"U+00C8", "U+00E8">>,
    <<"U+00C9", "U+00E9">>, <<"U+00CA", "U+00EA">>, <<"U+00CB", "U+00EB">>,
    <<"U+00CC", "U+00EC">>, <<"U+00CD", "U+00ED">>, <<"U+00CE", "U+00EE">>,
    <<"U+00CF", "U+00EF">>, <<"U+00D0", "U+00F0">>, <<"U+00D1", "U+00F1">>,
    <<"U+00D2", "U+00F2">>, <<"U+00D3", "U+00F3">>, <<"U+00D4", "U+00F4">>,
    <<"U+00D5", "U+00F5">>, <<"U+00D6", "U+00F6">>, <<"U+00D8", "U+00F8">>,
    <<"U+00D9", "U+00F9">>, <<"U+00DA", "U+00FA">>, <<"U+00DB", "U+00FB">>,
    <<"U+00DC", "U+00FC">>, <<"U+00DD", "U+00FD">>, <<"U+00DE", "U+00FE">>,
    <<"U+0100", "U+0101">>, <<"U+0102", "U+0103">>, <<"U+0104", "U+0105">>,
    <<"U+0106", "U+0107">>, <<"U+0108", "U+0109">>, <<"U+010A", "U+010B">>,
    <<"U+010C", "U+010D">>, <<"U+010E", "U+010F">>, <<"U+0110", "U+0111">>,
    <<"U+0112", "U+0113">>, <<"U+0114", "U+0115">>, <<"U+0116", "U+0117">>,
    <<"U+0118", "U+0119">>, <<"U+011A", "U+011B">>, <<"U+011C", "U+011D">>,
    <<"U+011E", "U+011F">>, <<"U+0120", "U+0121">>, <<"U+0122", "U+0123">>,
    <<"U+0124", "U+0125">>, <<"U+0126", "U+0127">>, <<"U+0128", "U+0129">>,
    <<"U+012A", "U+012B">>, <<"U+012C", "U+012D">>, <<"U+012E", "U+012F">>,
    <<"U+0130", "i">>, <<"U+0132", "U+0133">>, <<"U+0134", "U+0135">>,
    <<"U+0136", "U+0137">>, <<"U+0139", "U+013A">>, <<"U+013B", "U+013C">>,
    <<"U+013D", "U+013E">>, <<"U+013F", "U+0140">>, <<"U+0141", "U+0142">>,
    <<"U+0143", "U+0144">>, <<"U+0145", "U+0146">>, <<"U+0147", "U+0148">>,
    <<"U+014A", "U+014B">>, <<"U+014C", "U+014D">>, <<"U+014E", "U+014F">>,
    <<"U+0150", "U+0151">>, <<"U+0152", "U+0153">>, <<"U+0154", "U+0155">>,
    <<"U+0156", "U+0157">>, <<"U+0158", "U+0159">>, <<"U+015A", "U+015B">>,
    <<"U+015C", "U+015D">>, <<"U+015E", "U+015F">>, <<"U+0160", "U+0161">>,
    <<"U+0162", "U+0163">>, <<"U+0164", "U+0165">>, <<"U+0166", "U+0167">>,
    <<"U+0168", "U+0169">>, <<"U+016A", "U+016B">>, <<"U+016C", "U+016D">>,
    <<"U+016E", "U+016F">>, <<"U+0170", "U+0171">>, <<"U+0172", "U+0173">>,
    <<"U+0174", "U+0175">>, <<"U+0176", "U+0177">>, <<"U+0178", "U+00FF">>,
    <<"U+0179", "U+017A">>, <<"U+017B", "U+017C">>, <<"U+017D", "U+017E">>,
    <<"U+0181", "U+0253">>, <<"U+0182", "U+0183">>, <<"U+0184", "U+0185">>,
    <<"U+0186", "U+0254">>, <<"U+0187", "U+0188">>, <<"U+0189", "U+0256">>,
    <<"U+018A", "U+0257">>, <<"U+018B", "U+018C">>, <<"U+018E", "U+01DD">>,
    <<"U+018F", "U+0259">>, <<"U+0190", "U+025B">>, <<"U+0191", "U+0192">>,
    <<"U+0193", "U+0260">>, <<"U+0194", "U+0263">>, <<"U+0196", "U+0269">>,
    <<"U+0197", "U+0268">>, <<"U+0198", "U+0199">>, <<"U+019C", "U+026F">>,
    <<"U+019D", "U+0272">>, <<"U+019F", "U+0275">>, <<"U+01A0", "U+01A1">>,
    <<"U+01A2", "U+01A3">>, <<"U+01A4", "U+01A5">>, <<"U+01A6", "U+0280">>,
    <<"U+01A7", "U+01A8">>, <<"U+01A9", "U+0283">>, <<"U+01AC", "U+01AD">>,
    <<"U+01AE", "U+0288">>, <<"U+01AF", "U+01B0">>, <<"U+01B1", "U+028A">>,
    <<"U+01B2", "U+028B">>, <<"U+01B3", "U+01B4">>, <<"U+01B5", "U+01B6">>,
    <<"U+01B7", "U+0292">>, <<"U+01B8", "U+01B9">>, <<"U+01BC", "U+01BD">>,
    <<"U+01C4", "U+01C6">>, <<"U+01C5", "U+01C6">>, <<"U+01C7", "U+01C9">>,
    <<"U+01C8", "U+01C9">>, <<"U+01CA", "U+01CC">>, <<"U+01CB", "U+01CC">>,
    <<"U+01CD", "U+01CE">>, <<"U+01CF", "U+01D0">>, <<"U+01D1", "U+01D2">>,
    <<"U+01D3", "U+01D4">>, <<"U+01D5", "U+01D6">>, <<"U+01D7", "U+01D8">>,
    <<"U+01D9", "U+01DA">>, <<"U+01DB", "U+01DC">>, <<"U+01DE", "U+01DF">>,
    <<"U+01E0", "U+01E1">>, <<"U+01E2", "U+01E3">>, <<"U+01E4", "U+01E5">>,
    <<"U+01E6", "U+01E7">>, <<"U+01E8", "U+01E9">>, <<"U+01EA", "U+01EB">>,
    <<"U+01EC", "U+01ED">>, <<"U+01EE", "U+01EF">>, <<"U+01F1", "U+01F3">>,
    <<"U+01F2", "U+01F3">>, <<"U+01F4", "U+01F5">>, <<"U+01F6", "U+0195">>,
    <<"U+01F7", "U+01BF">>, <<"U+01F8", "U+01F9">>, <<"U+01FA", "U+01FB">>,
    <<"U+01FC", "U+01FD">>, <<"U+01FE", "U+01FF">>, <<"U+0200", "U+0201">>,
    <<"U+0202", "U+0203">>, <<"U+0204", "U+0205">>, <<"U+0206", "U+0207">>,
    <<"U+0208", "U+0209">>, <<"U+020A", "U+020B">>, <<"U+020C", "U+020D">>,
    <<"U+020E", "U+020F">>, <<"U+0210", "U+0211">>, <<"U+0212", "U+0213">>,
    <<"U+0214", "U+0215">>, <<"U+0216", "U+0217">>, <<"U+0218", "U+0219">>,
    <<"U+021A", "U+021B">>, <<"U+021C", "U+021D">>, <<"U+021E", "U+021F">>,
    <<"U+0220", "U+019E">>, <<"U+0222", "U+0223">>, <<"U+0224", "U+0225">>,
    <<"U+0226", "U+0227">>, <<"U+0228", "U+0229">>, <<"U+022A", "U+022B">>,
    <<"U+022C", "U+022D">>, <<"U+022E", "U+022F">>, <<"U+0230", "U+0231">>,
    <<"U+0232", "U+0233">>, <<"U+023A", "U+2C65">>, <<"U+023B", "U+023C">>,
    <<"U+023D", "U+019A">>, <<"U+023E", "U+2C66">>, <<"U+0241", "U+0242">>,
    <<"U+0243", "U+0180">>, <<"U+0244", "U+0289">>, <<"U+0245", "U+028C">>,
    <<"U+0246", "U+0247">>, <<"U+0248", "U+0249">>, <<"U+024A", "U+024B">>,
    <<"U+024C", "U+024D">>, <<"U+024E", "U+024F">>, <<"U+0370", "U+0371">>,
    <<"U+0372", "U+0373">>, <<"U+0376", "U+0377">>, <<"U+037F", "U+03F3">>,
    <<"U+0386", "U+03AC">>, <<"U+0388", "U+03AD">>, <<"U+0389", "U+03AE">>,
    <<"U+038A", "U+03AF">>, <<"U+038C", "U+03CC">>, <<"U+038E", "U+03CD">>,
    <<"U+038F", "U+03CE">>, <<"U+0391", "U+03B1">>, <<"U+0392", "U+03B2">>,
    <<"U+0393", "U+03B3">>, <<"U+0394", "U+03B4">>, <<"U+0395", "U+03B5">>,
    <<"U+0396", "U+03B6">>, <<"U+0397", "U+03B7">>, <<"U+0398", "U+03B8">>,
    <<"U+0399", "U+03B9">>, <<"U+039A", "U+03BA">>, <<"U+039B", "U+03BB">>,
    <<"U+039C", "U+03BC">>, <<"U+039D", "U+03BD">>, <<"U+039E", "U+03BE">>,
    <<"U+039F", "U+03BF">>, <<"U+03A0", "U+03C0">>, <<"U+03A1", "U+03C1">>,
    <<"U+03A3", "U+03C3">>, <<"U+03A4", "U+03C4">>, <<"U+03A5", "U+03C5">>,
    <<"U+03A6", "U+03C6">>, <<"U+03A7", "U+03C7">>, <<"U+03A8", "U+03C8">>,
    <<"U+03A9", "U+03C9">>, <<"U+03AA", "U+03CA">>, <<"U+03AB", "U+03CB">>,
    <<"U+03CF", "U+03D7">>, <<"U+03D8", "U+03D9">>, <<"U+03DA", "U+03DB">>,
    <<"U+03DC", "U+03DD">>, <<"U+03DE", "U+03DF">>, <<"U+03E0", "U+03E1">>,
    <<"U+03E2", "U+03E3">>, <<"U+03E4", "U+03E5">>, <<"U+03E6", "U+03E7">>,
    <<"U+03E8", "U+03E9">>, <<"U+03EA", "U+03EB">>, <<"U+03EC", "U+03ED">>,
    <<"U+03EE", "U+03EF">>, <<"U+03F4", "U+03B8">>, <<"U+03F7", "U+03F8">>,
    <<"U+03F9", "U+03F2">>, <<"U+03FA", "U+03FB">>, <<"U+03FD", "U+037B">>,
    <<"U+03FE", "U+037C">>, <<"U+03FF", "U+037D">>, <<"U+0400", "U+0450">>,
    <<"U+0401", "U+0451">>, <<"U+0402", "U+0452">>, <<"U+0403", "U+0453">>,
    <<"U+0404", "U+0454">>, <<"U+0405", "U+0455">>, <<"U+0406", "U+0456">>,
    <<"U+0407", "U+0457">>, <<"U+0408", "U+0458">>, <<"U+0409", "U+0459">>,
    <<"U+040A", "U+045A">>, <<"U+040B", "U+045B">>, <<"U+040C", "U+045C">>,
    <<"U+040D", "U+045D">>, <<"U+040E", "U+045E">>, <<"U+040F", "U+045F">>,
    <<"U+0410", "U+0430">>, <<"U+0411", "U+0431">>, <<"U+0412", "U+0432">>,
    <<"U+0413", "U+0433">>, <<"U+0414", "U+0434">>, <<"U+0415", "U+0435">>,
    <<"U+0416", "U+0436">>, <<"U+0417", "U+0437">>, <<"U+0418", "U+0438">>,
    <<"U+0419", "U+0439">>, <<"U+041A", "U+043A">>, <<"U+041B", "U+043B">>,
    <<"U+041C", "U+043C">>, <<"U+041D", "U+043D">>, <<"U+041E", "U+043E">>,
    <<"U+041F", "U+043F">>, <<"U+0420", "U+0440">>, <<"U+0421", "U+0441">>,
    <<"U+0422", "U+0442">>, <<"U+0423", "U+0443">>, <<"U+0424", "U+0444">>,
    <<"U+0425", "U+0445">>, <<"U+0426", "U+0446">>, <<"U+0427", "U+0447">>,
    <<"U+0428", "U+0448">>, <<"U+0429", "U+0449">>, <<"U+042A", "U+044A">>,
    <<"U+042B", "U+044B">>, <<"U+042C", "U+044C">>, <<"U+042D", "U+044D">>,
    <<"U+042E", "U+044E">>, <<"U+042F", "U+044F">>, <<"U+0460", "U+0461">>,
    <<"U+0462", "U+0463">>, <<"U+0464", "U+0465">>, <<"U+0466", "U+0467">>,
    <<"U+0468", "U+0469">>, <<"U+046A", "U+046B">>, <<"U+046C", "U+046D">>,
    <<"U+046E", "U+046F">>, <<"U+0470", "U+0471">>, <<"U+0472", "U+0473">>,
    <<"U+0474", "U+0475">>, <<"U+0476", "U+0477">>, <<"U+0478", "U+0479">>,
    <<"U+047A", "U+047B">>, <<"U+047C", "U+047D">>, <<"U+047E", "U+047F">>,
    <<"U+0480", "U+0481">>, <<"U+048A", "U+048B">>, <<"U+048C", "U+048D">>,
    <<"U+048E", "U+048F">>, <<"U+0490", "U+0491">>, <<"U+0492", "U+0493">>,
    <<"U+0494", "U+0495">>, <<"U+0496", "U+0497">>, <<"U+0498", "U+0499">>,
    <<"U+049A", "U+049B">>, <<"U+049C", "U+049D">>, <<"U+049E", "U+049F">>,
    <<"U+04A0", "U+04A1">>, <<"U+04A2", "U+04A3">>, <<"U+04A4", "U+04A5">>,
    <<"U+04A6", "U+04A7">>, <<"U+04A8", "U+04A9">>, <<"U+04AA", "U+04AB">>,
    <<"U+04AC", "U+04AD">>, <<"U+04AE", "U+04AF">>, <<"U+04B0", "U+04B1">>,
    <<"U+04B2", "U+04B3">>, <<"U+04B4", "U+04B5">>, <<"U+04B6", "U+04B7">>,
    <<"U+04B8", "U+04B9">>, <<"U+04BA", "U+04BB">>, <<"U+04BC", "U+04BD">>,
    <<"U+04BE", "U+04BF">>, <<"U+04C0", "U+04CF">>, <<"U+04C1", "U+04C2">>,
    <<"U+04C3", "U+04C4">>, <<"U+04C5", "U+04C6">>, <<"U+04C7", "U+04C8">>,
    <<"U+04C9", "U+04CA">>, <<"U+04CB", "U+04CC">>, <<"U+04CD", "U+04CE">>,
    <<"U+04D0", "U+04D1">>, <<"U+04D2", "U+04D3">>, <<"U+04D4", "U+04D5">>,
    <<"U+04D6", "U+04D7">>, <<"U+04D8", "U+04D9">>, <<"U+04DA", "U+04DB">>,
    <<"U+04DC", "U+04DD">>, <<"U+04DE", "U+04DF">>, <<"U+04E0", "U+04E1">>,
    <<"U+04E2", "U+04E3">>, <<"U+04E4", "U+04E5">>, <<"U+04E6", "U+04E7">>,
    <<"U+04E8", "U+04E9">>, <<"U+04EA", "U+04EB">>, <<"U+04EC", "U+04ED">>,
    <<"U+04EE", "U+04EF">>, <<"U+04F0", "U+04F1">>, <<"U+04F2", "U+04F3">>,
    <<"U+04F4", "U+04F5">>, <<"U+04F6", "U+04F7">>, <<"U+04F8", "U+04F9">>,
    <<"U+04FA", "U+04FB">>, <<"U+04FC", "U+04FD">>, <<"U+04FE", "U+04FF">>,
    <<"U+0500", "U+0501">>, <<"U+0502", "U+0503">>, <<"U+0504", "U+0505">>,
    <<"U+0506", "U+0507">>, <<"U+0508", "U+0509">>, <<"U+050A", "U+050B">>,
    <<"U+050C", "U+050D">>, <<"U+050E", "U+050F">>, <<"U+0510", "U+0511">>,
    <<"U+0512", "U+0513">>, <<"U+0514", "U+0515">>, <<"U+0516", "U+0517">>,
    <<"U+0518", "U+0519">>, <<"U+051A", "U+051B">>, <<"U+051C", "U+051D">>,
    <<"U+051E", "U+051F">>, <<"U+0520", "U+0521">>, <<"U+0522", "U+0523">>,
    <<"U+0524", "U+0525">>, <<"U+0526", "U+0527">>, <<"U+0528", "U+0529">>,
    <<"U+052A", "U+052B">>, <<"U+052C", "U+052D">>, <<"U+052E", "U+052F">>,
    <<"U+0531", "U+0561">>, <<"U+0532", "U+0562">>, <<"U+0533", "U+0563">>,
    <<"U+0534", "U+0564">>, <<"U+0535", "U+0565">>, <<"U+0536", "U+0566">>,
    <<"U+0537", "U+0567">>, <<"U+0538", "U+0568">>, <<"U+0539", "U+0569">>,
    <<"U+053A", "U+056A">>, <<"U+053B", "U+056B">>, <<"U+053C", "U+056C">>,
    <<"U+053D", "U+056D">>, <<"U+053E", "U+056E">>, <<"U+053F", "U+056F">>,
    <<"U+0540", "U+0570">>, <<"U+0541", "U+0571">>, <<"U+0542", "U+0572">>,
    <<"U+0543", "U+0573">>, <<"U+0544", "U+0574">>, <<"U+0545", "U+0575">>,
    <<"U+0546", "U+0576">>, <<"U+0547", "U+0577">>, <<"U+0548", "U+0578">>,
    <<"U+0549", "U+0579">>, <<"U+054A", "U+057A">>, <<"U+054B", "U+057B">>,
    <<"U+054C", "U+057C">>, <<"U+054D", "U+057D">>, <<"U+054E", "U+057E">>,
    <<"U+054F", "U+057F">>, <<"U+0550", "U+0580">>, <<"U+0551", "U+0581">>,
    <<"U+0552", "U+0582">>, <<"U+0553", "U+0583">>, <<"U+0554", "U+0584">>,
    <<"U+0555", "U+0585">>, <<"U+0556", "U+0586">>, <<"U+10A0", "U+2D00">>,
    <<"U+10A1", "U+2D01">>, <<"U+10A2", "U+2D02">>, <<"U+10A3", "U+2D03">>,
    <<"U+10A4", "U+2D04">>, <<"U+10A5", "U+2D05">>, <<"U+10A6", "U+2D06">>,
    <<"U+10A7", "U+2D07">>, <<"U+10A8", "U+2D08">>, <<"U+10A9", "U+2D09">>,
    <<"U+10AA", "U+2D0A">>, <<"U+10AB", "U+2D0B">>, <<"U+10AC", "U+2D0C">>,
    <<"U+10AD", "U+2D0D">>, <<"U+10AE", "U+2D0E">>, <<"U+10AF", "U+2D0F">>,
    <<"U+10B0", "U+2D10">>, <<"U+10B1", "U+2D11">>, <<"U+10B2", "U+2D12">>,
    <<"U+10B3", "U+2D13">>, <<"U+10B4", "U+2D14">>, <<"U+10B5", "U+2D15">>,
    <<"U+10B6", "U+2D16">>, <<"U+10B7", "U+2D17">>, <<"U+10B8", "U+2D18">>,
    <<"U+10B9", "U+2D19">>, <<"U+10BA", "U+2D1A">>, <<"U+10BB", "U+2D1B">>,
    <<"U+10BC", "U+2D1C">>, <<"U+10BD", "U+2D1D">>, <<"U+10BE", "U+2D1E">>,
    <<"U+10BF", "U+2D1F">>, <<"U+10C0", "U+2D20">>, <<"U+10C1", "U+2D21">>,
    <<"U+10C2", "U+2D22">>, <<"U+10C3", "U+2D23">>, <<"U+10C4", "U+2D24">>,
    <<"U+10C5", "U+2D25">>, <<"U+10C7", "U+2D27">>, <<"U+10CD", "U+2D2D">>,
    <<"U+13A0", "U+AB70">>, <<"U+13A1", "U+AB71">>, <<"U+13A2", "U+AB72">>,
    <<"U+13A3", "U+AB73">>, <<"U+13A4", "U+AB74">>, <<"U+13A5", "U+AB75">>,
    <<"U+13A6", "U+AB76">>, <<"U+13A7", "U+AB77">>, <<"U+13A8", "U+AB78">>,
    <<"U+13A9", "U+AB79">>, <<"U+13AA", "U+AB7A">>, <<"U+13AB", "U+AB7B">>,
    <<"U+13AC", "U+AB7C">>, <<"U+13AD", "U+AB7D">>, <<"U+13AE", "U+AB7E">>,
    <<"U+13AF", "U+AB7F">>, <<"U+13B0", "U+AB80">>, <<"U+13B1", "U+AB81">>,
    <<"U+13B2", "U+AB82">>, <<"U+13B3", "U+AB83">>, <<"U+13B4", "U+AB84">>,
    <<"U+13B5", "U+AB85">>, <<"U+13B6", "U+AB86">>, <<"U+13B7", "U+AB87">>,
    <<"U+13B8", "U+AB88">>, <<"U+13B9", "U+AB89">>, <<"U+13BA", "U+AB8A">>,
    <<"U+13BB", "U+AB8B">>, <<"U+13BC", "U+AB8C">>, <<"U+13BD", "U+AB8D">>,
    <<"U+13BE", "U+AB8E">>, <<"U+13BF", "U+AB8F">>, <<"U+13C0", "U+AB90">>,
    <<"U+13C1", "U+AB91">>, <<"U+13C2", "U+AB92">>, <<"U+13C3", "U+AB93">>,
    <<"U+13C4", "U+AB94">>, <<"U+13C5", "U+AB95">>, <<"U+13C6", "U+AB96">>,
    <<"U+13C7", "U+AB97">>, <<"U+13C8", "U+AB98">>, <<"U+13C9", "U+AB99">>,
    <<"U+13CA", "U+AB9A">>, <<"U+13CB", "U+AB9B">>, <<"U+13CC", "U+AB9C">>,
    <<"U+13CD", "U+AB9D">>, <<"U+13CE", "U+AB9E">>, <<"U+13CF", "U+AB9F">>,
    <<"U+13D0", "U+ABA0">>, <<"U+13D1", "U+ABA1">>, <<"U+13D2", "U+ABA2">>,
    <<"U+13D3", "U+ABA3">>, <<"U+13D4", "U+ABA4">>, <<"U+13D5", "U+ABA5">>,
    <<"U+13D6", "U+ABA6">>, <<"U+13D7", "U+ABA7">>, <<"U+13D8", "U+ABA8">>,
    <<"U+13D9", "U+ABA9">>, <<"U+13DA", "U+ABAA">>, <<"U+13DB", "U+ABAB">>,
    <<"U+13DC", "U+ABAC">>, <<"U+13DD", "U+ABAD">>, <<"U+13DE", "U+ABAE">>,
    <<"U+13DF", "U+ABAF">>, <<"U+13E0", "U+ABB0">>, <<"U+13E1", "U+ABB1">>,
    <<"U+13E2", "U+ABB2">>, <<"U+13E3", "U+ABB3">>, <<"U+13E4", "U+ABB4">>,
    <<"U+13E5", "U+ABB5">>, <<"U+13E6", "U+ABB6">>, <<"U+13E7", "U+ABB7">>,
    <<"U+13E8", "U+ABB8">>, <<"U+13E9", "U+ABB9">>, <<"U+13EA", "U+ABBA">>,
    <<"U+13EB", "U+ABBB">>, <<"U+13EC", "U+ABBC">>, <<"U+13ED", "U+ABBD">>,
    <<"U+13EE", "U+ABBE">>, <<"U+13EF", "U+ABBF">>, <<"U+13F0", "U+13F8">>,
    <<"U+13F1", "U+13F9">>, <<"U+13F2", "U+13FA">>, <<"U+13F3", "U+13FB">>,
    <<"U+13F4", "U+13FC">>, <<"U+13F5", "U+13FD">>, <<"U+1C90", "U+10D0">>,
    <<"U+1C91", "U+10D1">>, <<"U+1C92", "U+10D2">>, <<"U+1C93", "U+10D3">>,
    <<"U+1C94", "U+10D4">>, <<"U+1C95", "U+10D5">>, <<"U+1C96", "U+10D6">>,
    <<"U+1C97", "U+10D7">>, <<"U+1C98", "U+10D8">>, <<"U+1C99", "U+10D9">>,
    <<"U+1C9A", "U+10DA">>, <<"U+1C9B", "U+10DB">>, <<"U+1C9C", "U+10DC">>,
    <<"U+1C9D", "U+10DD">>, <<"U+1C9E", "U+10DE">>, <<"U+1C9F", "U+10DF">>,
    <<"U+1CA0", "U+10E0">>, <<"U+1CA1", "U+10E1">>, <<"U+1CA2", "U+10E2">>,
    <<"U+1CA3", "U+10E3">>, <<"U+1CA4", "U+10E4">>, <<"U+1CA5", "U+10E5">>,
    <<"U+1CA6", "U+10E6">>, <<"U+1CA7", "U+10E7">>, <<"U+1CA8", "U+10E8">>,
    <<"U+1CA9", "U+10E9">>, <<"U+1CAA", "U+10EA">>, <<"U+1CAB", "U+10EB">>,
    <<"U+1CAC", "U+10EC">>, <<"U+1CAD", "U+10ED">>, <<"U+1CAE", "U+10EE">>,
    <<"U+1CAF", "U+10EF">>, <<"U+1CB0", "U+10F0">>, <<"U+1CB1", "U+10F1">>,
    <<"U+1CB2", "U+10F2">>, <<"U+1CB3", "U+10F3">>, <<"U+1CB4", "U+10F4">>,
    <<"U+1CB5", "U+10F5">>, <<"U+1CB6", "U+10F6">>, <<"U+1CB7", "U+10F7">>,
    <<"U+1CB8", "U+10F8">>, <<"U+1CB9", "U+10F9">>, <<"U+1CBA", "U+10FA">>,
    <<"U+1CBD", "U+10FD">>, <<"U+1CBE", "U+10FE">>, <<"U+1CBF", "U+10FF">>,
    <<"U+1E00", "U+1E01">>, <<"U+1E02", "U+1E03">>, <<"U+1E04", "U+1E05">>,
    <<"U+1E06", "U+1E07">>, <<"U+1E08", "U+1E09">>, <<"U+1E0A", "U+1E0B">>,
    <<"U+1E0C", "U+1E0D">>, <<"U+1E0E", "U+1E0F">>, <<"U+1E10", "U+1E11">>,
    <<"U+1E12", "U+1E13">>, <<"U+1E14", "U+1E15">>, <<"U+1E16", "U+1E17">>,
    <<"U+1E18", "U+1E19">>, <<"U+1E1A", "U+1E1B">>, <<"U+1E1C", "U+1E1D">>,
    <<"U+1E1E", "U+1E1F">>, <<"U+1E20", "U+1E21">>, <<"U+1E22", "U+1E23">>,
    <<"U+1E24", "U+1E25">>, <<"U+1E26", "U+1E27">>, <<"U+1E28", "U+1E29">>,
    <<"U+1E2A", "U+1E2B">>, <<"U+1E2C", "U+1E2D">>, <<"U+1E2E", "U+1E2F">>,
    <<"U+1E30", "U+1E31">>, <<"U+1E32", "U+1E33">>, <<"U+1E34", "U+1E35">>,
    <<"U+1E36", "U+1E37">>, <<"U+1E38", "U+1E39">>, <<"U+1E3A", "U+1E3B">>,
    <<"U+1E3C", "U+1E3D">>, <<"U+1E3E", "U+1E3F">>, <<"U+1E40", "U+1E41">>,
    <<"U+1E42", "U+1E43">>, <<"U+1E44", "U+1E45">>, <<"U+1E46", "U+1E47">>,
    <<"U+1E48", "U+1E49">>, <<"U+1E4A", "U+1E4B">>, <<"U+1E4C", "U+1E4D">>,
    <<"U+1E4E", "U+1E4F">>, <<"U+1E50", "U+1E51">>, <<"U+1E52", "U+1E53">>,
    <<"U+1E54", "U+1E55">>, <<"U+1E56", "U+1E57">>, <<"U+1E58", "U+1E59">>,
    <<"U+1E5A", "U+1E5B">>, <<"U+1E5C", "U+1E5D">>, <<"U+1E5E", "U+1E5F">>,
    <<"U+1E60", "U+1E61">>, <<"U+1E62", "U+1E63">>, <<"U+1E64", "U+1E65">>,
    <<"U+1E66", "U+1E67">>, <<"U+1E68", "U+1E69">>, <<"U+1E6A", "U+1E6B">>,
    <<"U+1E6C", "U+1E6D">>, <<"U+1E6E", "U+1E6F">>, <<"U+1E70", "U+1E71">>,
    <<"U+1E72", "U+1E73">>, <<"U+1E74", "U+1E75">>, <<"U+1E76", "U+1E77">>,
    <<"U+1E78", "U+1E79">>, <<"U+1E7A", "U+1E7B">>, <<"U+1E7C", "U+1E7D">>,
    <<"U+1E7E", "U+1E7F">>, <<"U+1E80", "U+1E81">>, <<"U+1E82", "U+1E83">>,
    <<"U+1E84", "U+1E85">>, <<"U+1E86", "U+1E87">>, <<"U+1E88", "U+1E89">>,
    <<"U+1E8A", "U+1E8B">>, <<"U+1E8C", "U+1E8D">>, <<"U+1E8E", "U+1E8F">>,
    <<"U+1E90", "U+1E91">>, <<"U+1E92", "U+1E93">>, <<"U+1E94", "U+1E95">>,
    <<"U+1E9E", "U+00DF">>, <<"U+1EA0", "U+1EA1">>, <<"U+1EA2", "U+1EA3">>,
    <<"U+1EA4", "U+1EA5">>, <<"U+1EA6", "U+1EA7">>, <<"U+1EA8", "U+1EA9">>,
    <<"U+1EAA", "U+1EAB">>, <<"U+1EAC", "U+1EAD">>, <<"U+1EAE", "U+1EAF">>,
    <<"U+1EB0", "U+1EB1">>, <<"U+1EB2", "U+1EB3">>, <<"U+1EB4", "U+1EB5">>,
    <<"U+1EB6", "U+1EB7">>, <<"U+1EB8", "U+1EB9">>, <<"U+1EBA", "U+1EBB">>,
    <<"U+1EBC", "U+1EBD">>, <<"U+1EBE", "U+1EBF">>, <<"U+1EC0", "U+1EC1">>,
    <<"U+1EC2", "U+1EC3">>, <<"U+1EC4", "U+1EC5">>, <<"U+1EC6", "U+1EC7">>,
    <<"U+1EC8", "U+1EC9">>, <<"U+1ECA", "U+1ECB">>, <<"U+1ECC", "U+1ECD">>,
    <<"U+1ECE", "U+1ECF">>, <<"U+1ED0", "U+1ED1">>, <<"U+1ED2", "U+1ED3">>,
    <<"U+1ED4", "U+1ED5">>, <<"U+1ED6", "U+1ED7">>, <<"U+1ED8", "U+1ED9">>,
    <<"U+1EDA", "U+1EDB">>, <<"U+1EDC", "U+1EDD">>, <<"U+1EDE", "U+1EDF">>,
    <<"U+1EE0", "U+1EE1">>, <<"U+1EE2", "U+1EE3">>, <<"U+1EE4", "U+1EE5">>,
    <<"U+1EE6", "U+1EE7">>, <<"U+1EE8", "U+1EE9">>, <<"U+1EEA", "U+1EEB">>,
    <<"U+1EEC", "U+1EED">>, <<"U+1EEE", "U+1EEF">>, <<"U+1EF0", "U+1EF1">>,
    <<"U+1EF2", "U+1EF3">>, <<"U+1EF4", "U+1EF5">>, <<"U+1EF6", "U+1EF7">>,
    <<"U+1EF8", "U+1EF9">>, <<"U+1EFA", "U+1EFB">>, <<"U+1EFC", "U+1EFD">>,
    <<"U+1EFE", "U+1EFF">>, <<"U+1F08", "U+1F00">>, <<"U+1F09", "U+1F01">>,
    <<"U+1F0A", "U+1F02">>, <<"U+1F0B", "U+1F03">>, <<"U+1F0C", "U+1F04">>,
    <<"U+1F0D", "U+1F05">>, <<"U+1F0E", "U+1F06">>, <<"U+1F0F", "U+1F07">>,
    <<"U+1F18", "U+1F10">>, <<"U+1F19", "U+1F11">>, <<"U+1F1A", "U+1F12">>,
    <<"U+1F1B", "U+1F13">>, <<"U+1F1C", "U+1F14">>, <<"U+1F1D", "U+1F15">>,
    <<"U+1F28", "U+1F20">>, <<"U+1F29", "U+1F21">>, <<"U+1F2A", "U+1F22">>,
    <<"U+1F2B", "U+1F23">>, <<"U+1F2C", "U+1F24">>, <<"U+1F2D", "U+1F25">>,
    <<"U+1F2E", "U+1F26">>, <<"U+1F2F", "U+1F27">>, <<"U+1F38", "U+1F30">>,
    <<"U+1F39", "U+1F31">>, <<"U+1F3A", "U+1F32">>, <<"U+1F3B", "U+1F33">>,
    <<"U+1F3C", "U+1F34">>, <<"U+1F3D", "U+1F35">>, <<"U+1F3E", "U+1F36">>,
    <<"U+1F3F", "U+1F37">>, <<"U+1F48", "U+1F40">>, <<"U+1F49", "U+1F41">>,
    <<"U+1F4A", "U+1F42">>, <<"U+1F4B", "U+1F43">>, <<"U+1F4C", "U+1F44">>,
    <<"U+1F4D", "U+1F45">>, <<"U+1F59", "U+1F51">>, <<"U+1F5B", "U+1F53">>,
    <<"U+1F5D", "U+1F55">>, <<"U+1F5F", "U+1F57">>, <<"U+1F68", "U+1F60">>,
    <<"U+1F69", "U+1F61">>, <<"U+1F6A", "U+1F62">>, <<"U+1F6B", "U+1F63">>,
    <<"U+1F6C", "U+1F64">>, <<"U+1F6D", "U+1F65">>, <<"U+1F6E", "U+1F66">>,
    <<"U+1F6F", "U+1F67">>, <<"U+1F88", "U+1F80">>, <<"U+1F89", "U+1F81">>,
    <<"U+1F8A", "U+1F82">>, <<"U+1F8B", "U+1F83">>, <<"U+1F8C", "U+1F84">>,
    <<"U+1F8D", "U+1F85">>, <<"U+1F8E", "U+1F86">>, <<"U+1F8F", "U+1F87">>,
    <<"U+1F98", "U+1F90">>, <<"U+1F99", "U+1F91">>, <<"U+1F9A", "U+1F92">>,
    <<"U+1F9B", "U+1F93">>, <<"U+1F9C", "U+1F94">>, <<"U+1F9D", "U+1F95">>,
    <<"U+1F9E", "U+1F96">>, <<"U+1F9F", "U+1F97">>, <<"U+1FA8", "U+1FA0">>,
    <<"U+1FA9", "U+1FA1">>, <<"U+1FAA", "U+1FA2">>, <<"U+1FAB", "U+1FA3">>,
    <<"U+1FAC", "U+1FA4">>, <<"U+1FAD", "U+1FA5">>, <<"U+1FAE", "U+1FA6">>,
    <<"U+1FAF", "U+1FA7">>, <<"U+1FB8", "U+1FB0">>, <<"U+1FB9", "U+1FB1">>,
    <<"U+1FBA", "U+1F70">>, <<"U+1FBB", "U+1F71">>, <<"U+1FBC", "U+1FB3">>,
    <<"U+1FC8", "U+1F72">>, <<"U+1FC9", "U+1F73">>, <<"U+1FCA", "U+1F74">>,
    <<"U+1FCB", "U+1F75">>, <<"U+1FCC", "U+1FC3">>, <<"U+1FD8", "U+1FD0">>,
    <<"U+1FD9", "U+1FD1">>, <<"U+1FDA", "U+1F76">>, <<"U+1FDB", "U+1F77">>,
    <<"U+1FE8", "U+1FE0">>, <<"U+1FE9", "U+1FE1">>, <<"U+1FEA", "U+1F7A">>,
    <<"U+1FEB", "U+1F7B">>, <<"U+1FEC", "U+1FE5">>, <<"U+1FF8", "U+1F78">>,
    <<"U+1FF9", "U+1F79">>, <<"U+1FFA", "U+1F7C">>, <<"U+1FFB", "U+1F7D">>,
    <<"U+1FFC", "U+1FF3">>, <<"U+2126", "U+03C9">>, <<"U+212A", "k">>,
    <<"U+212B", "U+00E5">>, <<"U+2132", "U+214E">>, <<"U+2160", "U+2170">>,
    <<"U+2161", "U+2171">>, <<"U+2162", "U+2172">>, <<"U+2163", "U+2173">>,
    <<"U+2164", "U+2174">>, <<"U+2165", "U+2175">>, <<"U+2166", "U+2176">>,
    <<"U+2167", "U+2177">>, <<"U+2168", "U+2178">>, <<"U+2169", "U+2179">>,
    <<"U+216A", "U+217A">>, <<"U+216B", "U+217B">>, <<"U+216C", "U+217C">>,
    <<"U+216D", "U+217D">>, <<"U+216E", "U+217E">>, <<"U+216F", "U+217F">>,
    <<"U+2183", "U+2184">>, <<"U+24B6", "U+24D0">>, <<"U+24B7", "U+24D1">>,
    <<"U+24B8", "U+24D2">>, <<"U+24B9", "U+24D3">>, <<"U+24BA", "U+24D4">>,
    <<"U+24BB", "U+24D5">>, <<"U+24BC", "U+24D6">>, <<"U+24BD", "U+24D7">>,
    <<"U+24BE", "U+24D8">>, <<"U+24BF", "U+24D9">>, <<"U+24C0", "U+24DA">>,
    <<"U+24C1", "U+24DB">>, <<"U+24C2", "U+24DC">>, <<"U+24C3", "U+24DD">>,
    <<"U+24C4", "U+24DE">>, <<"U+24C5", "U+24DF">>, <<"U+24C6", "U+24E0">>,
    <<"U+24C7", "U+24E1">>, <<"U+24C8", "U+24E2">>, <<"U+24C9", "U+24E3">>,
    <<"U+24CA", "U+24E4">>, <<"U+24CB", "U+24E5">>, <<"U+24CC", "U+24E6">>,
    <<"U+24CD", "U+24E7">>, <<"U+24CE", "U+24E8">>, <<"U+24CF", "U+24E9">>,
    <<"U+2C00", "U+2C30">>, <<"U+2C01", "U+2C31">>, <<"U+2C02", "U+2C32">>,
    <<"U+2C03", "U+2C33">>, <<"U+2C04", "U+2C34">>, <<"U+2C05", "U+2C35">>,
    <<"U+2C06", "U+2C36">>, <<"U+2C07", "U+2C37">>, <<"U+2C08", "U+2C38">>,
    <<"U+2C09", "U+2C39">>, <<"U+2C0A", "U+2C3A">>, <<"U+2C0B", "U+2C3B">>,
    <<"U+2C0C", "U+2C3C">>, <<"U+2C0D", "U+2C3D">>, <<"U+2C0E", "U+2C3E">>,
    <<"U+2C0F", "U+2C3F">>, <<"U+2C10", "U+2C40">>, <<"U+2C11", "U+2C41">>,
    <<"U+2C12", "U+2C42">>, <<"U+2C13", "U+2C43">>, <<"U+2C14", "U+2C44">>,
    <<"U+2C15", "U+2C45">>, <<"U+2C16", "U+2C46">>, <<"U+2C17", "U+2C47">>,
    <<"U+2C18", "U+2C48">>, <<"U+2C19", "U+2C49">>, <<"U+2C1A", "U+2C4A">>,
    <<"U+2C1B", "U+2C4B">>, <<"U+2C1C", "U+2C4C">>, <<"U+2C1D", "U+2C4D">>,
    <<"U+2C1E", "U+2C4E">>, <<"U+2C1F", "U+2C4F">>, <<"U+2C20", "U+2C50">>,
    <<"U+2C21", "U+2C51">>, <<"U+2C22", "U+2C52">>, <<"U+2C23", "U+2C53">>,
    <<"U+2C24", "U+2C54">>, <<"U+2C25", "U+2C55">>, <<"U+2C26", "U+2C56">>,
    <<"U+2C27", "U+2C57">>, <<"U+2C28", "U+2C58">>, <<"U+2C29", "U+2C59">>,
    <<"U+2C2A", "U+2C5A">>, <<"U+2C2B", "U+2C5B">>, <<"U+2C2C", "U+2C5C">>,
    <<"U+2C2D", "U+2C5D">>, <<"U+2C2E", "U+2C5E">>, <<"U+2C2F", "U+2C5F">>,
    <<"U+2C60", "U+2C61">>, <<"U+2C62", "U+026B">>, <<"U+2C63", "U+1D7D">>,
    <<"U+2C64", "U+027D">>, <<"U+2C67", "U+2C68">>, <<"U+2C69", "U+2C6A">>,
    <<"U+2C6B", "U+2C6C">>, <<"U+2C6D", "U+0251">>, <<"U+2C6E", "U+0271">>,
    <<"U+2C6F", "U+0250">>, <<"U+2C70", "U+0252">>, <<"U+2C72", "U+2C73">>,
    <<"U+2C75", "U+2C76">>, <<"U+2C7E", "U+023F">>, <<"U+2C7F", "U+0240">>,
    <<"U+2C80", "U+2C81">>, <<"U+2C82", "U+2C83">>, <<"U+2C84", "U+2C85">>,
    <<"U+2C86", "U+2C87">>, <<"U+2C88", "U+2C89">>, <<"U+2C8A", "U+2C8B">>,
    <<"U+2C8C", "U+2C8D">>, <<"U+2C8E", "U+2C8F">>, <<"U+2C90", "U+2C91">>,
    <<"U+2C92", "U+2C93">>, <<"U+2C94", "U+2C95">>, <<"U+2C96", "U+2C97">>,
    <<"U+2C98", "U+2C99">>, <<"U+2C9A", "U+2C9B">>, <<"U+2C9C", "U+2C9D">>,
    <<"U+2C9E", "U+2C9F">>, <<"U+2CA0", "U+2CA1">>, <<"U+2CA2", "U+2CA3">>,
    <<"U+2CA4", "U+2CA5">>, <<"U+2CA6", "U+2CA7">>, <<"U+2CA8", "U+2CA9">>,
    <<"U+2CAA", "U+2CAB">>, <<"U+2CAC", "U+2CAD">>, <<"U+2CAE", "U+2CAF">>,
    <<"U+2CB0", "U+2CB1">>, <<"U+2CB2", "U+2CB3">>, <<"U+2CB4", "U+2CB5">>,
    <<"U+2CB6", "U+2CB7">>, <<"U+2CB8", "U+2CB9">>, <<"U+2CBA", "U+2CBB">>,
    <<"U+2CBC", "U+2CBD">>, <<"U+2CBE", "U+2CBF">>, <<"U+2CC0", "U+2CC1">>,
    <<"U+2CC2", "U+2CC3">>, <<"U+2CC4", "U+2CC5">>, <<"U+2CC6", "U+2CC7">>,
    <<"U+2CC8", "U+2CC9">>, <<"U+2CCA", "U+2CCB">>, <<"U+2CCC", "U+2CCD">>,
    <<"U+2CCE", "U+2CCF">>, <<"U+2CD0", "U+2CD1">>, <<"U+2CD2", "U+2CD3">>,
    <<"U+2CD4", "U+2CD5">>, <<"U+2CD6", "U+2CD7">>, <<"U+2CD8", "U+2CD9">>,
    <<"U+2CDA", "U+2CDB">>, <<"U+2CDC", "U+2CDD">>, <<"U+2CDE", "U+2CDF">>,
    <<"U+2CE0", "U+2CE1">>, <<"U+2CE2", "U+2CE3">>, <<"U+2CEB", "U+2CEC">>,
    <<"U+2CED", "U+2CEE">>, <<"U+2CF2", "U+2CF3">>, <<"U+A640", "U+A641">>,
    <<"U+A642", "U+A643">>, <<"U+A644", "U+A645">>, <<"U+A646", "U+A647">>,
    <<"U+A648", "U+A649">>, <<"U+A64A", "U+A64B">>, <<"U+A64C", "U+A64D">>,
    <<"U+A64E", "U+A64F">>, <<"U+A650", "U+A651">>, <<"U+A652", "U+A653">>,
    <<"U+A654", "U+A655">>, <<"U+A656", "U+A657">>, <<"U+A658", "U+A659">>,
    <<"U+A65A", "U+A65B">>, <<"U+A65C", "U+A65D">>, <<"U+A65E", "U+A65F">>,
    <<"U+A660", "U+A661">>, <<"U+A662", "U+A663">>, <<"U+A664", "U+A665">>,
    <<"U+A666", "U+A667">>, <<"U+A668", "U+A669">>, <<"U+A66A", "U+A66B">>,
    <<"U+A66C", "U+A66D">>, <<"U+A680", "U+A681">>, <<"U+A682", "U+A683">>,
    <<"U+A684", "U+A685">>, <<"U+A686", "U+A687">>, <<"U+A688", "U+A689">>,
    <<"U+A68A", "U+A68B">>, <<"U+A68C", "U+A68D">>, <<"U+A68E", "U+A68F">>,
    <<"U+A690", "U+A691">>, <<"U+A692", "U+A693">>, <<"U+A694", "U+A695">>,
    <<"U+A696", "U+A697">>, <<"U+A698", "U+A699">>, <<"U+A69A", "U+A69B">>,
    <<"U+A722", "U+A723">>, <<"U+A724", "U+A725">>, <<"U+A726", "U+A727">>,
    <<"U+A728", "U+A729">>, <<"U+A72A", "U+A72B">>, <<"U+A72C", "U+A72D">>,
    <<"U+A72E", "U+A72F">>, <<"U+A732", "U+A733">>, <<"U+A734", "U+A735">>,
    <<"U+A736", "U+A737">>, <<"U+A738", "U+A739">>, <<"U+A73A", "U+A73B">>,
    <<"U+A73C", "U+A73D">>, <<"U+A73E", "U+A73F">>, <<"U+A740", "U+A741">>,
    <<"U+A742", "U+A743">>, <<"U+A744", "U+A745">>, <<"U+A746", "U+A747">>,
    <<"U+A748", "U+A749">>, <<"U+A74A", "U+A74B">>, <<"U+A74C", "U+A74D">>,
    <<"U+A74E", "U+A74F">>, <<"U+A750", "U+A751">>, <<"U+A752", "U+A753">>,
    <<"U+A754", "U+A755">>, <<"U+A756", "U+A757">>, <<"U+A758", "U+A759">>,
    <<"U+A75A", "U+A75B">>, <<"U+A75C", "U+A75D">>, <<"U+A75E", "U+A75F">>,
    <<"U+A760", "U+A761">>, <<"U+A762", "U+A763">>, <<"U+A764", "U+A765">>,
    <<"U+A766", "U+A767">>, <<"U+A768", "U+A769">>, <<"U+A76A", "U+A76B">>,
    <<"U+A76C", "U+A76D">>, <<"U+A76E", "U+A76F">>, <<"U+A779", "U+A77A">>,
    <<"U+A77B", "U+A77C">>, <<"U+A77D", "U+1D79">>, <<"U+A77E", "U+A77F">>,
    <<"U+A780", "U+A781">>, <<"U+A782", "U+A783">>, <<"U+A784", "U+A785">>,
    <<"U+A786", "U+A787">>, <<"U+A78B", "U+A78C">>, <<"U+A78D", "U+0265">>,
    <<"U+A790", "U+A791">>, <<"U+A792", "U+A793">>, <<"U+A796", "U+A797">>,
    <<"U+A798", "U+A799">>, <<"U+A79A", "U+A79B">>, <<"U+A79C", "U+A79D">>,
    <<"U+A79E", "U+A79F">>, <<"U+A7A0", "U+A7A1">>, <<"U+A7A2", "U+A7A3">>,
    <<"U+A7A4", "U+A7A5">>, <<"U+A7A6", "U+A7A7">>, <<"U+A7A8", "U+A7A9">>,
    <<"U+A7AA", "U+0266">>, <<"U+A7AB", "U+025C">>, <<"U+A7AC", "U+0261">>,
    <<"U+A7AD", "U+026C">>, <<"U+A7AE", "U+026A">>, <<"U+A7B0", "U+029E">>,
    <<"U+A7B1", "U+0287">>, <<"U+A7B2", "U+029D">>, <<"U+A7B3", "U+AB53">>,
    <<"U+A7B4", "U+A7B5">>, <<"U+A7B6", "U+A7B7">>, <<"U+A7B8", "U+A7B9">>,
    <<"U+A7BA", "U+A7BB">>, <<"U+A7BC", "U+A7BD">>, <<"U+A7BE", "U+A7BF">>,
    <<"U+A7C0", "U+A7C1">>, <<"U+A7C2", "U+A7C3">>, <<"U+A7C4", "U+A794">>,
    <<"U+A7C5", "U+0282">>, <<"U+A7C6", "U+1D8E">>, <<"U+A7C7", "U+A7C8">>,
    <<"U+A7C9", "U+A7CA">>, <<"U+A7D0", "U+A7D1">>, <<"U+A7D6", "U+A7D7">>,
    <<"U+A7D8", "U+A7D9">>, <<"U+A7F5", "U+A7F6">>, <<"U+FF21", "U+FF41">>,
    <<"U+FF22", "U+FF42">>, <<"U+FF23", "U+FF43">>, <<"U+FF24", "U+FF44">>,
    <<"U+FF25", "U+FF45">>, <<"U+FF26", "U+FF46">>, <<"U+FF27", "U+FF47">>,
    <<"U+FF28", "U+FF48">>, <<"U+FF29", "U+FF49">>, <<"U+FF2A", "U+FF4A">>,
    <<"U+FF2B", "U+FF4B">>, <<"U+FF2C", "U+FF4C">>, <<"U+FF2D", "U+FF4D">>,
    <<"U+FF2E", "U+FF4E">>, <<"U+FF2F", "U+FF4F">>, <<"U+FF30", "U+FF50">>,
    <<"U+FF31", "U+FF51">>, <<"U+FF32", "U+FF52">>, <<"U+FF33", "U+FF53">>,
    <<"U+FF34", "U+FF54">>, <<"U+FF35", "U+FF55">>, <<"U+FF36", "U+FF56">>,
    <<"U+FF37", "U+FF57">>, <<"U+FF38", "U+FF58">>, <<"U+FF39", "U+FF59">>,
    <<"U+FF3A", "U+FF5A">>, <<"U+10400", "U+10428">>, <<"U+10401", "U+10429">>,
    <<"U+10402", "U+1042A">>, <<"U+10403", "U+1042B">>, <<"U+10404", "U+1042C">>,
    <<"U+10405", "U+1042D">>, <<"U+10406", "U+1042E">>, <<"U+10407", "U+1042F">>,
    <<"U+10408", "U+10430">>, <<"U+10409", "U+10431">>, <<"U+1040A", "U+10432">>,
    <<"U+1040B", "U+10433">>, <<"U+1040C", "U+10434">>, <<"U+1040D", "U+10435">>,
    <<"U+1040E", "U+10436">>, <<"U+1040F", "U+10437">>, <<"U+10410", "U+10438">>,
    <<"U+10411", "U+10439">>, <<"U+10412", "U+1043A">>, <<"U+10413", "U+1043B">>,
    <<"U+10414", "U+1043C">>, <<"U+10415", "U+1043D">>, <<"U+10416", "U+1043E">>,
    <<"U+10417", "U+1043F">>, <<"U+10418", "U+10440">>, <<"U+10419", "U+10441">>,
    <<"U+1041A", "U+10442">>, <<"U+1041B", "U+10443">>, <<"U+1041C", "U+10444">>,
    <<"U+1041D", "U+10445">>, <<"U+1041E", "U+10446">>, <<"U+1041F", "U+10447">>,
    <<"U+10420", "U+10448">>, <<"U+10421", "U+10449">>, <<"U+10422", "U+1044A">>,
    <<"U+10423", "U+1044B">>, <<"U+10424", "U+1044C">>, <<"U+10425", "U+1044D">>,
    <<"U+10426", "U+1044E">>, <<"U+10427", "U+1044F">>, <<"U+104B0", "U+104D8">>,
    <<"U+104B1", "U+104D9">>, <<"U+104B2", "U+104DA">>, <<"U+104B3", "U+104DB">>,
    <<"U+104B4", "U+104DC">>, <<"U+104B5", "U+104DD">>, <<"U+104B6", "U+104DE">>,
    <<"U+104B7", "U+104DF">>, <<"U+104B8", "U+104E0">>, <<"U+104B9", "U+104E1">>,
    <<"U+104BA", "U+104E2">>, <<"U+104BB", "U+104E3">>, <<"U+104BC", "U+104E4">>,
    <<"U+104BD", "U+104E5">>, <<"U+104BE", "U+104E6">>, <<"U+104BF", "U+104E7">>,
    <<"U+104C0", "U+104E8">>, <<"U+104C1", "U+104E9">>, <<"U+104C2", "U+104EA">>,
    <<"U+104C3", "U+104EB">>, <<"U+104C4", "U+104EC">>, <<"U+104C5", "U+104ED">>,
    <<"U+104C6", "U+104EE">>, <<"U+104C7", "U+104EF">>, <<"U+104C8", "U+104F0">>,
    <<"U+104C9", "U+104F1">>, <<"U+104CA", "U+104F2">>, <<"U+104CB", "U+104F3">>,
    <<"U+104CC", "U+104F4">>, <<"U+104CD", "U+104F5">>, <<"U+104CE", "U+104F6">>,
    <<"U+104CF", "U+104F7">>, <<"U+104D0", "U+104F8">>, <<"U+104D1", "U+104F9">>,
    <<"U+104D2", "U+104FA">>, <<"U+104D3", "U+104FB">>, <<"U+10570", "U+10597">>,
    <<"U+10571", "U+10598">>, <<"U+10572", "U+10599">>, <<"U+10573", "U+1059A">>,
    <<"U+10574", "U+1059B">>, <<"U+10575", "U+1059C">>, <<"U+10576", "U+1059D">>,
    <<"U+10577", "U+1059E">>, <<"U+10578", "U+1059F">>, <<"U+10579", "U+105A0">>,
    <<"U+1057A", "U+105A1">>, <<"U+1057C", "U+105A3">>, <<"U+1057D", "U+105A4">>,
    <<"U+1057E", "U+105A5">>, <<"U+1057F", "U+105A6">>, <<"U+10580", "U+105A7">>,
    <<"U+10581", "U+105A8">>, <<"U+10582", "U+105A9">>, <<"U+10583", "U+105AA">>,
    <<"U+10584", "U+105AB">>, <<"U+10585", "U+105AC">>, <<"U+10586", "U+105AD">>,
    <<"U+10587", "U+105AE">>, <<"U+10588", "U+105AF">>, <<"U+10589", "U+105B0">>,
    <<"U+1058A", "U+105B1">>, <<"U+1058C", "U+105B3">>, <<"U+1058D", "U+105B4">>,
    <<"U+1058E", "U+105B5">>, <<"U+1058F", "U+105B6">>, <<"U+10590", "U+105B7">>,
    <<"U+10591", "U+105B8">>, <<"U+10592", "U+105B9">>, <<"U+10594", "U+105BB">>,
    <<"U+10595", "U+105BC">>, <<"U+10C80", "U+10CC0">>, <<"U+10C81", "U+10CC1">>,
    <<"U+10C82", "U+10CC2">>, <<"U+10C83", "U+10CC3">>, <<"U+10C84", "U+10CC4">>,
    <<"U+10C85", "U+10CC5">>, <<"U+10C86", "U+10CC6">>, <<"U+10C87", "U+10CC7">>,
    <<"U+10C88", "U+10CC8">>, <<"U+10C89", "U+10CC9">>, <<"U+10C8A", "U+10CCA">>,
    <<"U+10C8B", "U+10CCB">>, <<"U+10C8C", "U+10CCC">>, <<"U+10C8D", "U+10CCD">>,
    <<"U+10C8E", "U+10CCE">>, <<"U+10C8F", "U+10CCF">>, <<"U+10C90", "U+10CD0">>,
    <<"U+10C91", "U+10CD1">>, <<"U+10C92", "U+10CD2">>, <<"U+10C93", "U+10CD3">>,
    <<"U+10C94", "U+10CD4">>, <<"U+10C95", "U+10CD5">>, <<"U+10C96", "U+10CD6">>,
    <<"U+10C97", "U+10CD7">>, <<"U+10C98", "U+10CD8">>, <<"U+10C99", "U+10CD9">>,
    <<"U+10C9A", "U+10CDA">>, <<"U+10C9B", "U+10CDB">>, <<"U+10C9C", "U+10CDC">>,
    <<"U+10C9D", "U+10CDD">>, <<"U+10C9E", "U+10CDE">>, <<"U+10C9F", "U+10CDF">>,
    <<"U+10CA0", "U+10CE0">>, <<"U+10CA1", "U+10CE1">>, <<"U+10CA2", "U+10CE2">>,
    <<"U+10CA3", "U+10CE3">>, <<"U+10CA4", "U+10CE4">>, <<"U+10CA5", "U+10CE5">>,
    <<"U+10CA6", "U+10CE6">>, <<"U+10CA7", "U+10CE7">>, <<"U+10CA8", "U+10CE8">>,
    <<"U+10CA9", "U+10CE9">>, <<"U+10CAA", "U+10CEA">>, <<"U+10CAB", "U+10CEB">>,
    <<"U+10CAC", "U+10CEC">>, <<"U+10CAD", "U+10CED">>, <<"U+10CAE", "U+10CEE">>,
    <<"U+10CAF", "U+10CEF">>, <<"U+10CB0", "U+10CF0">>, <<"U+10CB1", "U+10CF1">>,
    <<"U+10CB2", "U+10CF2">>, <<"U+118A0", "U+118C0">>, <<"U+118A1", "U+118C1">>,
    <<"U+118A2", "U+118C2">>, <<"U+118A3", "U+118C3">>, <<"U+118A4", "U+118C4">>,
    <<"U+118A5", "U+118C5">>, <<"U+118A6", "U+118C6">>, <<"U+118A7", "U+118C7">>,
    <<"U+118A8", "U+118C8">>, <<"U+118A9", "U+118C9">>, <<"U+118AA", "U+118CA">>,
    <<"U+118AB", "U+118CB">>, <<"U+118AC", "U+118CC">>, <<"U+118AD", "U+118CD">>,
    <<"U+118AE", "U+118CE">>, <<"U+118AF", "U+118CF">>, <<"U+118B0", "U+118D0">>,
    <<"U+118B1", "U+118D1">>, <<"U+118B2", "U+118D2">>, <<"U+118B3", "U+118D3">>,
    <<"U+118B4", "U+118D4">>, <<"U+118B5", "U+118D5">>, <<"U+118B6", "U+118D6">>,
    <<"U+118B7", "U+118D7">>, <<"U+118B8", "U+118D8">>, <<"U+118B9", "U+118D9">>,
    <<"U+118BA", "U+118DA">>, <<"U+118BB", "U+118DB">>, <<"U+118BC", "U+118DC">>,
    <<"U+118BD", "U+118DD">>, <<"U+118BE", "U+118DE">>, <<"U+118BF", "U+118DF">>,
    <<"U+16E40", "U+16E60">>, <<"U+16E41", "U+16E61">>, <<"U+16E42", "U+16E62">>,
    <<"U+16E43", "U+16E63">>, <<"U+16E44", "U+16E64">>, <<"U+16E45", "U+16E65">>,
    <<"U+16E46", "U+16E66">>, <<"U+16E47", "U+16E67">>, <<"U+16E48", "U+16E68">>,
    <<"U+16E49", "U+16E69">>, <<"U+16E4A", "U+16E6A">>, <<"U+16E4B", "U+16E6B">>,
    <<"U+16E4C", "U+16E6C">>, <<"U+16E4D", "U+16E6D">>, <<"U+16E4E", "U+16E6E">>,
    <<"U+16E4F", "U+16E6F">>, <<"U+16E50", "U+16E70">>, <<"U+16E51", "U+16E71">>,
    <<"U+16E52", "U+16E72">>, <<"U+16E53", "U+16E73">>, <<"U+16E54", "U+16E74">>,
    <<"U+16E55", "U+16E75">>, <<"U+16E56", "U+16E76">>, <<"U+16E57", "U+16E77">>,
    <<"U+16E58", "U+16E78">>, <<"U+16E59", "U+16E79">>, <<"U+16E5A", "U+16E7A">>,
    <<"U+16E5B", "U+16E7B">>, <<"U+16E5C", "U+16E7C">>, <<"U+16E5D", "U+16E7D">>,
    <<"U+16E5E", "U+16E7E">>, <<"U+16E5F", "U+16E7F">>, <<"U+1E900", "U+1E922">>,
    <<"U+1E901", "U+1E923">>, <<"U+1E902", "U+1E924">>, <<"U+1E903", "U+1E925">>,
    <<"U+1E904", "U+1E926">>, <<"U+1E905", "U+1E927">>, <<"U+1E906", "U+1E928">>,
    <<"U+1E907", "U+1E929">>, <<"U+1E908", "U+1E92A">>, <<"U+1E909", "U+1E92B">>,
    <<"U+1E90A", "U+1E92C">>, <<"U+1E90B", "U+1E92D">>, <<"U+1E90C", "U+1E92E">>,
    <<"U+1E90D", "U+1E92F">>, <<"U+1E90E", "U+1E930">>, <<"U+1E90F", "U+1E931">>,
    <<"U+1E910", "U+1E932">>, <<"U+1E911", "U+1E933">>, <<"U+1E912", "U+1E934">>,
    <<"U+1E913", "U+1E935">>, <<"U+1E914", "U+1E936">>, <<"U+1E915", "U+1E937">>,
    <<"U+1E916", "U+1E938">>, <<"U+1E917", "U+1E939">>, <<"U+1E918", "U+1E93A">>,
    <<"U+1E919", "U+1E93B">>, <<"U+1E91A", "U+1E93C">>, <<"U+1E91B", "U+1E93D">>,
    <<"U+1E91C", "U+1E93E">>, <<"U+1E91D", "U+1E93F">>, <<"U+1E91E", "U+1E940">>,
    <<"U+1E91F", "U+1E941">>, <<"U+1E920", "U+1E942">>, <<"U+1E921", "U+1E943">>>>

UnicodeLower == FcnOf(LowerPairs)

\* unicode.ToLower on one character: A-Z by the ASCII rule, any other
\* character by the table, and a character without a lower case is kept
LowerChar(c) ==
  IF c \in DOMAIN LowerOf THEN LowerOf[c]
  ELSE Mapped(UnicodeLower, c)

\* strings.ToLower
ToLower(s) == [i \in 1..Len(s) |-> LowerChar(s[i])]

\* strings.HasPrefix
HasPrefix(s, prefix) ==
  Len(s) >= Len(prefix) /\ SubSeq(s, 1, Len(prefix)) = prefix
\* strings.HasSuffix
HasSuffix(s, suffix) ==
  /\ Len(s) >= Len(suffix)
  /\ SubSeq(s, Len(s) - Len(suffix) + 1, Len(s)) = suffix
\* strings.TrimPrefix
TrimPrefix(s, prefix) ==
  IF HasPrefix(s, prefix) THEN SubSeq(s, Len(prefix) + 1, Len(s)) ELSE s
\* strings.TrimSuffix
TrimSuffix(s, suffix) ==
  IF HasSuffix(s, suffix) THEN SubSeq(s, 1, Len(s) - Len(suffix)) ELSE s

ActionAllow == <<"a", "l", "l", "o", "w">>
ActionDeny == <<"d", "e", "n", "y">>

\* a nil *NetworkPolicy
NilPolicy == [nil |-> TRUE]

\* DefaultDenyPolicy: &NetworkPolicy{DefaultAction: ActionDeny}
DefaultDenyPolicy == [Egress |-> <<>>, DefaultAction |-> ActionDeny]

\* the zero values of NetworkPolicy and EgressRule
ZeroPolicy == [Egress |-> <<>>, DefaultAction |-> <<>>]
ZeroRule == [Action |-> <<>>, Target |-> <<>>]

\* a mutant of matchesDomain: only the exact comparison is made
matchesDomain_ExactOnly(r, domain) ==
  LET pattern == ToLower(TrimSpace(r.Target)) IN
  IF pattern = <<>> THEN FALSE
  ELSE pattern = ToLower(domain)

\* EgressRule.matchesDomain
matchesDomain(r, domain) ==
  LET pattern == ToLower(TrimSpace(r.Target))
      d == ToLower(domain)
  IN IF pattern = <<>> THEN FALSE
     ELSE IF pattern = d THEN TRUE
     ELSE IF HasPrefix(pattern, <<"*", ".">>)
          THEN LET suffix == TrimPrefix(pattern, <<"*">>) IN
               /\ HasSuffix(d, suffix)
               /\ d # TrimPrefix(pattern, <<"*", ".">>)
          ELSE FALSE

\* a mutant of the loop of Evaluate: the last rule that matches decides
RECURSIVE EvaluateRules_LastMatch(_, _, _)
EvaluateRules_LastMatch(p, domain, i) ==
  IF i > Len(p.Egress)
  THEN IF p.DefaultAction = <<>> THEN ActionDeny ELSE p.DefaultAction
  ELSE IF /\ matchesDomain(p.Egress[i], domain)
          /\ \A j \in (i + 1)..Len(p.Egress) :
               ~matchesDomain(p.Egress[j], domain)
       THEN IF p.Egress[i].Action = <<>> THEN ActionDeny
            ELSE p.Egress[i].Action
       ELSE EvaluateRules_LastMatch(p, domain, i + 1)

\* the loop of Evaluate over the rules from index i: the first rule that
\* matches decides
RECURSIVE EvaluateRules(_, _, _)
EvaluateRules(p, domain, i) ==
  IF i > Len(p.Egress)
  THEN IF p.DefaultAction = <<>> THEN ActionDeny ELSE p.DefaultAction
  ELSE IF matchesDomain(p.Egress[i], domain)
       THEN IF p.Egress[i].Action = <<>> THEN ActionDeny
            ELSE p.Egress[i].Action
       ELSE EvaluateRules(p, domain, i + 1)

\* a mutant of Evaluate: the domain is taken as it is given
Evaluate_DomainAsGiven(p, domain) ==
  IF p = NilPolicy THEN ActionDeny
  ELSE EvaluateRules(p, domain, 1)

\* NetworkPolicy.Evaluate
Evaluate(p, domain) ==
  IF p = NilPolicy THEN ActionDeny
  ELSE EvaluateRules(p, ToLower(TrimSuffix(domain, <<".">>)), 1)

\* a mutant of ensureDefaults: the policy is returned as it is
ensureDefaults_Unchanged(p) ==
  IF p = NilPolicy THEN DefaultDenyPolicy ELSE p

\* ensureDefaults
ensureDefaults(p) ==
  IF p = NilPolicy THEN DefaultDenyPolicy
  ELSE IF p.DefaultAction = <<>>
       THEN [p EXCEPT !.DefaultAction = ActionDeny]
       ELSE p

----------------------------------------------------------------------------
(* encoding/json as ParsePolicy uses it: the tokens of the text, the value *)
(* they spell, and the value decoded into a NetworkPolicy.                 *)

Quote == "\""
Backslash == "\\"
Punctuation == {"{", "}", "[", "]", ":", ","}
NullText == <<"n", "u", "l", "l">>
TrueText == <<"t", "r", "u", "e">>
FalseText == <<"f", "a", "l", "s", "e">>

\* a character that is not printable ASCII is written U+ and its code point
\* in hexadecimal, except the four the strings of the model can hold
UpperHex ==
  <<"0", "1", "2", "3", "4", "5", "6", "7", "8", "9",
    "A", "B", "C", "D", "E", "F">>
RECURSIVE HexText(_, _)
HexText(n, width) ==
  IF width = 0 THEN ""
  ELSE HexText(n \div 16, width - 1) \o UpperHex[(n % 16) + 1]

\* the characters 0x20 to 0x7E (the grave accent, which a string of the
\* model cannot hold, by its code point)
Ascii ==
  <<" ", "!", "\"", "#", "$", "%", "&", "'", "(", ")", "*", "+", ",", "-",
    ".", "/", "0", "1", "2", "3", "4", "5", "6", "7", "8", "9", ":", ";",
    "<", "=", ">", "?", "@", "A", "B", "C", "D", "E", "F", "G", "H", "I",
    "J", "K", "L", "M", "N", "O", "P", "Q", "R", "S", "T", "U", "V", "W",
    "X", "Y", "Z", "[", "\\", "]", "^", "_", "U+0060", "a", "b", "c", "d", "e",
    "f", "g", "h", "i", "j", "k", "l", "m", "n", "o", "p", "q", "r", "s",
    "t", "u", "v", "w", "x", "y", "z", "{", "|", "}", "~">>

\* the character of a code point; one outside ASCII is written by its code
\* point in hexadecimal, with four digits or as many as it needs
RuneChar(n) ==
  IF n \in 32..126 THEN Ascii[n - 31]
  ELSE IF n = 9 THEN "\t"
  ELSE IF n = 10 THEN "\n"
  ELSE IF n = 12 THEN "\f"
  ELSE IF n = 13 THEN "\r"
  ELSE "U+" \o HexText(n, IF n > 1048575 THEN 6 ELSE IF n > 65535 THEN 5
                            ELSE 4)

\* the scanner's isSpace
JSONSpace == {" ", "\t", "\r", "\n"}
\* the characters below 0x20, which a JSON string cannot hold unescaped
ControlChars == {RuneChar(n) : n \in 0..31}

\* the value of a hexadecimal digit, -1 for another character
HexVal(c) ==
  IF \E k \in 1..16 : UpperHex[k] = c
  THEN (CHOOSE k \in 1..16 : UpperHex[k] = c) - 1
  ELSE IF c \in {"a", "b", "c", "d", "e", "f"}
       THEN (CHOOSE k \in 11..16 : LowerOf[UpperHex[k]] = c) - 1
       ELSE 0 - 1

\* getu4: the code point of the escape \uXXXX that starts at i, -1 when
\* there is none
getu4(s, i) ==
  IF i + 5 > Len(s) \/ s[i] # Backslash \/ s[i + 1] # "u" THEN 0 - 1
  ELSE IF \E k \in 2..5 : HexVal(s[i + k]) < 0 THEN 0 - 1
  ELSE 4096 * HexVal(s[i + 2]) + 256 * HexVal(s[i + 3])
         + 16 * HexVal(s[i + 4]) + HexVal(s[i + 5])

\* unicode.ReplacementChar
ReplacementChar == 65533
\* utf16.IsSurrogate: 0xD800 to 0xDFFF
IsSurrogate(r) == 55296 <= r /\ r < 57344
\* utf16.DecodeRune: the code point of a surrogate pair, the replacement
\* character when the two are no pair
DecodeRune(r1, r2) ==
  IF 55296 <= r1 /\ r1 < 56320 /\ 56320 <= r2 /\ r2 < 57344
  THEN (r1 - 55296) * 1024 + (r2 - 56320) + 65536
  ELSE ReplacementChar

\* the characters that may follow a backslash, \u apart
SimpleEscapes == {Quote, Backslash, "/", "b", "f", "n", "r", "t"}
\* the character an escape stands for
EscapeChar(e) ==
  CASE e = "b" -> RuneChar(8)
    [] e = "f" -> "\f"
    [] e = "n" -> "\n"
    [] e = "r" -> "\r"
    [] e = "t" -> "\t"
    [] OTHER -> e

StringFail == [ok |-> FALSE, val |-> <<>>, next |-> 0]

\* the string whose text starts at i, after the opening quote: the scanner's
\* checks (no raw control character, valid escapes, a closing quote) and
\* unquote's decoding; out is what is decoded so far, next the index after
\* the closing quote
RECURSIVE ScanString(_, _, _)
ScanString(s, i, out) ==
  IF i > Len(s) THEN StringFail
  ELSE IF s[i] = Quote THEN [ok |-> TRUE, val |-> out, next |-> i + 1]
  ELSE IF s[i] \in ControlChars THEN StringFail
  ELSE IF s[i] # Backslash THEN ScanString(s, i + 1, Append(out, s[i]))
  ELSE IF i + 1 > Len(s) THEN StringFail
  ELSE IF s[i + 1] \in SimpleEscapes
       THEN ScanString(s, i + 2, Append(out, EscapeChar(s[i + 1])))
  ELSE IF getu4(s, i) < 0 THEN StringFail
  ELSE IF ~IsSurrogate(getu4(s, i))
       THEN ScanString(s, i + 6, Append(out, RuneChar(getu4(s, i))))
  ELSE IF DecodeRune(getu4(s, i), getu4(s, i + 6)) # ReplacementChar
       THEN ScanString(s, i + 12,
              Append(out, RuneChar(DecodeRune(getu4(s, i), getu4(s, i + 6)))))
       ELSE ScanString(s, i + 6, Append(out, RuneChar(ReplacementChar)))

\* the index after the digits that start at i
RECURSIVE SkipDigits(_, _)
SkipDigits(s, i) ==
  IF i <= Len(s) /\ IsDigit(s[i]) THEN SkipDigits(s, i + 1) ELSE i

\* the index after the number that starts at i, 0 when the text is no
\* number: an optional minus, 0 or digits without a leading 0, an optional
\* fraction, an optional exponent
ScanNumber(s, i) ==
  LET int == IF s[i] = "-" THEN i + 1 ELSE i
      frac == IF int > Len(s) \/ ~IsDigit(s[int]) THEN 0
              ELSE IF s[int] = "0" THEN int + 1
              ELSE SkipDigits(s, int)
      exp == IF frac = 0 THEN 0
             ELSE IF frac <= Len(s) /\ s[frac] = "."
                  THEN IF SkipDigits(s, frac + 1) = frac + 1 THEN 0
                       ELSE SkipDigits(s, frac + 1)
                  ELSE frac
      digits == IF exp # 0 /\ exp + 1 <= Len(s) /\ s[exp + 1] \in {"+", "-"}
                THEN exp + 2 ELSE exp + 1
  IN IF exp = 0 THEN 0
     ELSE IF exp <= Len(s) /\ s[exp] \in {"e", "E"}
          THEN IF SkipDigits(s, digits) = digits THEN 0
               ELSE SkipDigits(s, digits)
          ELSE exp

Token(kind, text) == [k |-> kind, v |-> text]

\* the text w stands in s at index i
At(s, i, w) == i + Len(w) - 1 <= Len(s) /\ SubSeq(s, i, i + Len(w) - 1) = w

\* the scanner: the tokens of s from index i; a token "bad" ends the list
\* where the text is not JSON
RECURSIVE Lex(_, _)
Lex(s, i) ==
  IF i > Len(s) THEN <<>>
  ELSE IF s[i] \in JSONSpace THEN Lex(s, i + 1)
  ELSE IF s[i] \in Punctuation
       THEN <<Token(s[i], <<>>)>> \o Lex(s, i + 1)
  ELSE IF s[i] = Quote
       THEN LET r == ScanString(s, i + 1, <<>>) IN
            IF ~r.ok THEN <<Token("bad", <<>>)>>
            ELSE <<Token("str", r.val)>> \o Lex(s, r.next)
  ELSE IF At(s, i, NullText)
       THEN <<Token("null", <<>>)>> \o Lex(s, i + 4)
  ELSE IF At(s, i, TrueText)
       THEN <<Token("bool", <<>>)>> \o Lex(s, i + 4)
  ELSE IF At(s, i, FalseText)
       THEN <<Token("bool", <<>>)>> \o Lex(s, i + 5)
  ELSE IF s[i] = "-" \/ IsDigit(s[i])
       THEN LET j == ScanNumber(s, i) IN
            IF j = 0 THEN <<Token("bad", <<>>)>>
            ELSE <<Token("num", SubSeq(s, i, j - 1))>> \o Lex(s, j)
  ELSE <<Token("bad", <<>>)>>

\* JSON values
JNull == [t |-> "null", s |-> <<>>, items |-> <<>>]
JStr(s) == [t |-> "str", s |-> s, items |-> <<>>]
JArr(items) == [t |-> "arr", s |-> <<>>, items |-> items]
JObj(members) == [t |-> "obj", s |-> <<>>, items |-> members]
\* a number, true or false: the policy has no field of these types
JScalar(kind) == [t |-> kind, s |-> <<>>, items |-> <<>>]

ParseFail == [ok |-> FALSE, val |-> JNull, next |-> 0]
Parsed(val, next) == [ok |-> TRUE, val |-> val, next |-> next]

\* the parser: the value that starts at token i and the index after it
RECURSIVE ParseValue(_, _)
RECURSIVE ParseMembers(_, _, _)
RECURSIVE ParseElements(_, _, _)
ParseValue(toks, i) ==
  IF i > Len(toks) THEN ParseFail
  ELSE IF toks[i].k = "null" THEN Parsed(JNull, i + 1)
  ELSE IF toks[i].k = "str" THEN Parsed(JStr(toks[i].v), i + 1)
  ELSE IF toks[i].k \in {"num", "bool"}
       THEN Parsed(JScalar(toks[i].k), i + 1)
  ELSE IF toks[i].k = "{"
       THEN IF i + 1 <= Len(toks) /\ toks[i + 1].k = "}"
            THEN Parsed(JObj(<<>>), i + 2)
            ELSE ParseMembers(toks, i + 1, <<>>)
  ELSE IF toks[i].k = "["
       THEN IF i + 1 <= Len(toks) /\ toks[i + 1].k = "]"
            THEN Parsed(JArr(<<>>), i + 2)
            ELSE ParseElements(toks, i + 1, <<>>)
  ELSE ParseFail

\* the members of an object from token i: "key" : value, then , or }
ParseMembers(toks, i, got) ==
  IF i + 1 > Len(toks) \/ toks[i].k # "str" \/ toks[i + 1].k # ":"
  THEN ParseFail
  ELSE LET r == ParseValue(toks, i + 2) IN
       IF ~r.ok \/ r.next > Len(toks) THEN ParseFail
       ELSE LET got2 == Append(got, [key |-> toks[i].v, val |-> r.val]) IN
            IF toks[r.next].k = "}" THEN Parsed(JObj(got2), r.next + 1)
            ELSE IF toks[r.next].k = ","
                 THEN ParseMembers(toks, r.next + 1, got2)
                 ELSE ParseFail

\* the elements of an array from token i: value, then , or ]
ParseElements(toks, i, got) ==
  LET r == ParseValue(toks, i) IN
  IF ~r.ok \/ r.next > Len(toks) THEN ParseFail
  ELSE LET got2 == Append(got, r.val) IN
       IF toks[r.next].k = "]" THEN Parsed(JArr(got2), r.next + 1)
       ELSE IF toks[r.next].k = ","
            THEN ParseElements(toks, r.next + 1, got2)
            ELSE ParseFail

\* the JSON names of the fields
KeyEgress == <<"e", "g", "r", "e", "s", "s">>
KeyDefaultAction == <<"d", "e", "f", "a", "u", "l", "t", "A", "c", "t", "i", "o", "n">>
KeyAction == <<"a", "c", "t", "i", "o", "n">>
KeyTarget == <<"t", "a", "r", "g", "e", "t">>

\* the upper-case letter of every lower-case letter
UpperOf ==
  [c \in {LowerCase[i] : i \in 1..26} |->
     UpperCase[CHOOSE i \in 1..26 : LowerCase[i] = c]]

\* unicode.SimpleFold outside ASCII: every character that is not the
\* smallest of the characters SimpleFold holds equal to it, with that
\* smallest character (the classes of the simple case folding of the Unicode
\* character database). The long s (U+017F) is in the class of S and s, the
\* Kelvin sign (U+212A) in that of K and k; the dotted capital I (U+0130) and
\* the dotless i (U+0131) fold with nothing.
FoldPairs ==
  <<<<"U+00E0", "U+00C0">>, <<"U+00E1", "U+00C1">>, <<"U+00E2", "U+00C2">>,
    <<"U+00E3", "U+00C3">>, <<"U+00E4", "U+00C4">>, <<"U+00E5", "U+00C5">>,
    <<"U+00E6", "U+00C6">>, <<"U+00E7", "U+00C7">>, <<"U+00E8", "U+00C8">>,
    <<"U+00E9", "U+00C9">>, <<"U+00EA", "U+00CA">>, <<"U+00EB", "U+00CB">>,
    <<"U+00EC", "U+00CC">>, <<"U+00ED", "U+00CD">>, <<"U+00EE", "U+00CE">>,
    <<"U+00EF", "U+00CF">>, <<"U+00F0", "U+00D0">>, <<"U+00F1", "U+00D1">>,
    <<"U+00F2", "U+00D2">>, <<"U+00F3", "U+00D3">>, <<"U+00F4", "U+00D4">>,
    <<"U+00F5", "U+00D5">>, <<"U+00F6", "U+00D6">>, <<"U+00F8", "U+00D8">>,
    <<"U+00F9", "U+00D9">>, <<"U+00FA", "U+00DA">>, <<"U+00FB", "U+00DB">>,
    <<"U+00FC", "U+00DC">>, <<"U+00FD", "U+00DD">>, <<"U+00FE", "U+00DE">>,
    <<"U+0101", "U+0100">>, <<"U+0103", "U+0102">>, <<"U+0105", "U+0104">>,
    <<"U+0107", "U+0106">>, <<"U+0109", "U+0108">>, <<"U+010B", "U+010A">>,
    <<"U+010D", "U+010C">>, <<"U+010F", "U+010E">>, <<"U+0111", "U+0110">>,
    <<"U+0113", "U+0112">>, <<"U+0115", "U+0114">>, <<"U+0117", "U+0116">>,
    <<"U+0119", "U+0118">>, <<"U+011B", "U+011A">>, <<"U+011D", "U+011C">>,
    <<"U+011F", "U+011E">>, <<"U+0121", "U+0120">>, <<"U+0123", "U+0122">>,
    <<"U+0125", "U+0124">>, <<"U+0127", "U+0126">>, <<"U+0129", "U+0128">>,
    <<"U+012B", "U+012A">>, <<"U+012D", "U+012C">>, <<"U+012F", "U+012E">>,
    <<"U+0133", "U+0132">>, <<"U+0135", "U+0134">>, <<"U+0137", "U+0136">>,
    <<"U+013A", "U+0139">>, <<"U+013C", "U+013B">>, <<"U+013E", "U+013D">>,
    <<"U+0140", "U+013F">>, <<"U+0142", "U+0141">>, <<"U+0144", "U+0143">>,
    <<"U+0146", "U+0145">>, <<"U+0148", "U+0147">>, <<"U+014B", "U+014A">>,
    <<"U+014D", "U+014C">>, <<"U+014F", "U+014E">>, <<"U+0151", "U+0150">>,
    <<"U+0153", "U+0152">>, <<"U+0155", "U+0154">>, <<"U+0157", "U+0156">>,
    <<"U+0159", "U+0158">>, <<"U+015B", "U+015A">>, <<"U+015D", "U+015C">>,
    <<"U+015F", "U+015E">>, <<"U+0161", "U+0160">>, <<"U+0163", "U+0162">>,
    <<"U+0165", "U+0164">>, <<"U+0167", "U+0166">>, <<"U+0169", "U+0168">>,
    <<"U+016B", "U+016A">>, <<"U+016D", "U+016C">>, <<"U+016F", "U+016E">>,
    <<"U+0171", "U+0170">>, <<"U+0173", "U+0172">>, <<"U+0175", "U+0174">>,
    <<"U+0177", "U+0176">>, <<"U+0178", "U+00FF">>, <<"U+017A", "U+0179">>,
    <<"U+017C", "U+017B">>, <<"U+017E", "U+017D">>, <<"U+017F", "S">>,
    <<"U+0183", "U+0182">>, <<"U+0185", "U+0184">>, <<"U+0188", "U+0187">>,
    <<"U+018C", "U+018B">>, <<"U+0192", "U+0191">>, <<"U+0199", "U+0198">>,
    <<"U+01A1", "U+01A0">>, <<"U+01A3", "U+01A2">>, <<"U+01A5", "U+01A4">>,
    <<"U+01A8", "U+01A7">>, <<"U+01AD", "U+01AC">>, <<"U+01B0", "U+01AF">>,
    <<"U+01B4", "U+01B3">>, <<"U+01B6", "U+01B5">>, <<"U+01B9", "U+01B8">>,
    <<"U+01BD", "U+01BC">>, <<"U+01C5", "U+01C4">>, <<"U+01C6", "U+01C4">>,
    <<"U+01C8", "U+01C7">>, <<"U+01C9", "U+01C7">>, <<"U+01CB", "U+01CA">>,
    <<"U+01CC", "U+01CA">>, <<"U+01CE", "U+01CD">>, <<"U+01D0", "U+01CF">>,
    <<"U+01D2", "U+01D1">>, <<"U+01D4", "U+01D3">>, <<"U+01D6", "U+01D5">>,
    <<"U+01D8", "U+01D7">>, <<"U+01DA", "U+01D9">>, <<"U+01DC", "U+01DB">>,
    <<"U+01DD", "U+018E">>, <<"U+01DF", "U+01DE">>, <<"U+01E1", "U+01E0">>,
    <<"U+01E3", "U+01E2">>, <<"U+01E5", "U+01E4">>, <<"U+01E7", "U+01E6">>,
    <<"U+01E9", "U+01E8">>, <<"U+01EB", "U+01EA">>, <<"U+01ED", "U+01EC">>,
    <<"U+01EF", "U+01EE">>, <<"U+01F2", "U+01F1">>, <<"U+01F3", "U+01F1">>,
    <<"U+01F5", "U+01F4">>, <<"U+01F6", "U+0195">>, <<"U+01F7", "U+01BF">>,
    <<"U+01F9", "U+01F8">>, <<"U+01FB", "U+01FA">>, <<"U+01FD", "U+01FC">>,
    <<"U+01FF", "U+01FE">>, <<"U+0201", "U+0200">>, <<"U+0203", "U+0202">>,
    <<"U+0205", "U+0204">>, <<"U+0207", "U+0206">>, <<"U+0209", "U+0208">>,
    <<"U+020B", "U+020A">>, <<"U+020D", "U+020C">>, <<"U+020F", "U+020E">>,
    <<"U+0211", "U+0210">>, <<"U+0213", "U+0212">>, <<"U+0215", "U+0214">>,
    <<"U+0217", "U+0216">>, <<"U+0219", "U+0218">>, <<"U+021B", "U+021A">>,
    <<"U+021D", "U+021C">>, <<"U+021F", "U+021E">>, <<"U+0220", "U+019E">>,
    <<"U+0223", "U+0222">>, <<"U+0225", "U+0224">>, <<"U+0227", "U+0226">>,
    <<"U+0229", "U+0228">>, <<"U+022B", "U+022A">>, <<"U+022D", "U+022C">>,
    <<"U+022F", "U+022E">>, <<"U+0231", "U+0230">>, <<"U+0233", "U+0232">>,
    <<"U+023C", "U+023B">>, <<"U+023D", "U+019A">>, <<"U+0242", "U+0241">>,
    <<"U+0243", "U+0180">>, <<"U+0247", "U+0246">>, <<"U+0249", "U+0248">>,
    <<"U+024B", "U+024A">>, <<"U+024D", "U+024C">>, <<"U+024F", "U+024E">>,
    <<"U+0253", "U+0181">>, <<"U+0254", "U+0186">>, <<"U+0256", "U+0189">>,
    <<"U+0257", "U+018A">>, <<"U+0259", "U+018F">>, <<"U+025B", "U+0190">>,
    <<"U+0260", "U+0193">>, <<"U+0263", "U+0194">>, <<"U+0268", "U+0197">>,
    <<"U+0269", "U+0196">>, <<"U+026F", "U+019C">>, <<"U+0272", "U+019D">>,
    <<"U+0275", "U+019F">>, <<"U+0280", "U+01A6">>, <<"U+0283", "U+01A9">>,
    <<"U+0288", "U+01AE">>, <<"U+0289", "U+0244">>, <<"U+028A", "U+01B1">>,
    <<"U+028B", "U+01B2">>, <<"U+028C", "U+0245">>, <<"U+0292", "U+01B7">>,
    <<"U+0371", "U+0370">>, <<"U+0373", "U+0372">>, <<"U+0377", "U+0376">>,
    <<"U+0399", "U+0345">>, <<"U+039C", "U+00B5">>, <<"U+03AC", "U+0386">>,
    <<"U+03AD", "U+0388">>, <<"U+03AE", "U+0389">>, <<"U+03AF", "U+038A">>,
    <<"U+03B1", "U+0391">>, <<"U+03B2", "U+0392">>, <<"U+03B3", "U+0393">>,
    <<"U+03B4", "U+0394">>, <<"U+03B5", "U+0395">>, <<"U+03B6", "U+0396">>,
    <<"U+03B7", "U+0397">>, <<"U+03B8", "U+0398">>, <<"U+03B9", "U+0345">>,
    <<"U+03BA", "U+039A">>, <<"U+03BB", "U+039B">>, <<"U+03BC", "U+00B5">>,
    <<"U+03BD", "U+039D">>, <<"U+03BE", "U+039E">>, <<"U+03BF", "U+039F">>,
    <<"U+03C0", "U+03A0">>, <<"U+03C1", "U+03A1">>, <<"U+03C2", "U+03A3">>,
    <<"U+03C3", "U+03A3">>, <<"U+03C4", "U+03A4">>, <<"U+03C5", "U+03A5">>,
    <<"U+03C6", "U+03A6">>, <<"U+03C7", "U+03A7">>, <<"U+03C8", "U+03A8">>,
    <<"U+03C9", "U+03A9">>, <<"U+03CA", "U+03AA">>, <<"U+03CB", "U+03AB">>,
    <<"U+03CC", "U+038C">>, <<"U+03CD", "U+038E">>, <<"U+03CE", "U+038F">>,
    <<"U+03D0", "U+0392">>, <<"U+03D1", "U+0398">>, <<"U+03D5", "U+03A6">>,
    <<"U+03D6", "U+03A0">>, <<"U+03D7", "U+03CF">>, <<"U+03D9", "U+03D8">>,
    <<"U+03DB", "U+03DA">>, <<"U+03DD", "U+03DC">>, <<"U+03DF", "U+03DE">>,
    <<"U+03E1", "U+03E0">>, <<"U+03E3", "U+03E2">>, <<"U+03E5", "U+03E4">>,
    <<"U+03E7", "U+03E6">>, <<"U+03E9", "U+03E8">>, <<"U+03EB", "U+03EA">>,
    <<"U+03ED", "U+03EC">>, <<"U+03EF", "U+03EE">>, <<"U+03F0", "U+039A">>,
    <<"U+03F1", "U+03A1">>, <<"U+03F3", "U+037F">>, <<"U+03F4", "U+0398">>,
    <<"U+03F5", "U+0395">>, <<"U+03F8", "U+03F7">>, <<"U+03F9", "U+03F2">>,
    <<"U+03FB", "U+03FA">>, <<"U+03FD", "U+037B">>, <<"U+03FE", "U+037C">>,
    <<"U+03FF", "U+037D">>, <<"U+0430", "U+0410">>, <<"U+0431", "U+0411">>,
    <<"U+0432", "U+0412">>, <<"U+0433", "U+0413">>, <<"U+0434", "U+0414">>,
    <<"U+0435", "U+0415">>, <<"U+0436", "U+0416">>, <<"U+0437", "U+0417">>,
    <<"U+0438", "U+0418">>, <<"U+0439", "U+0419">>, <<"U+043A", "U+041A">>,
    <<"U+043B", "U+041B">>, <<"U+043C", "U+041C">>, <<"U+043D", "U+041D">>,
    <<"U+043E", "U+041E">>, <<"U+043F", "U+041F">>, <<"U+0440", "U+0420">>,
    <<"U+0441", "U+0421">>, <<"U+0442", "U+0422">>, <<"U+0443", "U+0423">>,
    <<"U+0444", "U+0424">>, <<"U+0445", "U+0425">>, <<"U+0446", "U+0426">>,
    <<"U+0447", "U+0427">>, <<"U+0448", "U+0428">>, <<"U+0449", "U+0429">>,
    <<"U+044A", "U+042A">>, <<"U+044B", "U+042B">>, <<"U+044C", "U+042C">>,
    <<"U+044D", "U+042D">>, <<"U+044E", "U+042E">>, <<"U+044F", "U+042F">>,
    <<"U+0450", "U+0400">>, <<"U+0451", "U+0401">>, <<"U+0452", "U+0402">>,
    <<"U+0453", "U+0403">>, <<"U+0454", "U+0404">>, <<"U+0455", "U+0405">>,
    <<"U+0456", "U+0406">>, <<"U+0457", "U+0407">>, <<"U+0458", "U+0408">>,
    <<"U+0459", "U+0409">>, <<"U+045A", "U+040A">>, <<"U+045B", "U+040B">>,
    <<"U+045C", "U+040C">>, <<"U+045D", "U+040D">>, <<"U+045E", "U+040E">>,
    <<"U+045F", "U+040F">>, <<"U+0461", "U+0460">>, <<"U+0463", "U+0462">>,
    <<"U+0465", "U+0464">>, <<"U+0467", "U+0466">>, <<"U+0469", "U+0468">>,
    <<"U+046B", "U+046A">>, <<"U+046D", "U+046C">>, <<"U+046F", "U+046E">>,
    <<"U+0471", "U+0470">>, <<"U+0473", "U+0472">>, <<"U+0475", "U+0474">>,
    <<"U+0477", "U+0476">>, <<"U+0479", "U+0478">>, <<"U+047B", "U+047A">>,
    <<"U+047D", "U+047C">>, <<"U+047F", "U+047E">>, <<"U+0481", "U+0480">>,
    <<"U+048B", "U+048A">>, <<"U+048D", "U+048C">>, <<"U+048F", "U+048E">>,
    <<"U+0491", "U+0490">>, <<"U+0493", "U+0492">>, <<"U+0495", "U+0494">>,
    <<"U+0497", "U+0496">>, <<"U+0499", "U+0498">>, <<"U+049B", "U+049A">>,
    <<"U+049D", "U+049C">>, <<"U+049F", "U+049E">>, <<"U+04A1", "U+04A0">>,
    <<"U+04A3", "U+04A2">>, <<"U+04A5", "U+04A4">>, <<"U+04A7", "U+04A6">>,
    <<"U+04A9", "U+04A8">>, <<"U+04AB", "U+04AA">>, <<"U+04AD", "U+04AC">>,
    <<"U+04AF", "U+04AE">>, <<"U+04B1", "U+04B0">>, <<"U+04B3", "U+04B2">>,
    <<"U+04B5", "U+04B4">>, <<"U+04B7", "U+04B6">>, <<"U+04B9", "U+04B8">>,
    <<"U+04BB", "U+04BA">>, <<"U+04BD", "U+04BC">>, <<"U+04BF", "U+04BE">>,
    <<"U+04C2", "U+04C1">>, <<"U+04C4", "U+04C3">>, <<"U+04C6", "U+04C5">>,
    <<"U+04C8", "U+04C7">>, <<"U+04CA", "U+04C9">>, <<"U+04CC", "U+04CB">>,
    <<"U+04CE", "U+04CD">>, <<"U+04CF", "U+04C0">>, <<"U+04D1", "U+04D0">>,
    <<"U+04D3", "U+04D2">>, <<"U+04D5", "U+04D4">>, <<"U+04D7", "U+04D6">>,
    <<"U+04D9", "U+04D8">>, <<"U+04DB", "U+04DA">>, <<"U+04DD", "U+04DC">>,
    <<"U+04DF", "U+04DE">>, <<"U+04E1", "U+04E0">>, <<"U+04E3", "U+04E2">>,
    <<"U+04E5", "U+04E4">>, <<"U+04E7", "U+04E6">>, <<"U+04E9", "U+04E8">>,
    <<"U+04EB", "U+04EA">>, <<"U+04ED", "U+04EC">>, <<"U+04EF", "U+04EE">>,
    <<"U+04F1", "U+04F0">>, <<"U+04F3", "U+04F2">>, <<"U+04F5", "U+04F4">>,
    <<"U+04F7", "U+04F6">>, <<"U+04F9", "U+04F8">>, <<"U+04FB", "U+04FA">>,
    <<"U+04FD", "U+04FC">>, <<"U+04FF", "U+04FE">>, <<"U+0501", "U+0500">>,
    <<"U+0503", "U+0502">>, <<"U+0505", "U+0504">>, <<"U+0507", "U+0506">>,
    <<"U+0509", "U+0508">>, <<"U+050B", "U+050A">>, <<"U+050D", "U+050C">>,
    <<"U+050F", "U+050E">>, <<"U+0511", "U+0510">>, <<"U+0513", "U+0512">>,
    <<"U+0515", "U+0514">>, <<"U+0517", "U+0516">>, <<"U+0519", "U+0518">>,
    <<"U+051B", "U+051A">>, <<"U+051D", "U+051C">>, <<"U+051F", "U+051E">>,
    <<"U+0521", "U+0520">>, <<"U+0523", "U+0522">>, <<"U+0525", "U+0524">>,
    <<"U+0527", "U+0526">>, <<"U+0529", "U+0528">>, <<"U+052B", "U+052A">>,
    <<"U+052D", "U+052C">>, <<"U+052F", "U+052E">>, <<"U+0561", "U+0531">>,
    <<"U+0562", "U+0532">>, <<"U+0563", "U+0533">>, <<"U+0564", "U+0534">>,
    <<"U+0565", "U+0535">>, <<"U+0566", "U+0536">>, <<"U+0567", "U+0537">>,
    <<"U+0568", "U+0538">>, <<"U+0569", "U+0539">>, <<"U+056A", "U+053A">>,
    <<"U+056B", "U+053B">>, <<"U+056C", "U+053C">>, <<"U+056D", "U+053D">>,
    <<"U+056E", "U+053E">>, <<"U+056F", "U+053F">>, <<"U+0570", "U+0540">>,
    <<"U+0571", "U+0541">>, <<"U+0572", "U+0542">>, <<"U+0573", "U+0543">>,
    <<"U+0574", "U+0544">>, <<"U+0575", "U+0545">>, <<"U+0576", "U+0546">>,
    <<"U+0577", "U+0547">>, <<"U+0578", "U+0548">>, <<"U+0579", "U+0549">>,
    <<"U+057A", "U+054A">>, <<"U+057B", "U+054B">>, <<"U+057C", "U+054C">>,
    <<"U+057D", "U+054D">>, <<"U+057E", "U+054E">>, <<"U+057F", "U+054F">>,
    <<"U+0580", "U+0550">>, <<"U+0581", "U+0551">>, <<"U+0582", "U+0552">>,
    <<"U+0583", "U+0553">>, <<"U+0584", "U+0554">>, <<"U+0585", "U+0555">>,
    <<"U+0586", "U+0556">>, <<"U+13F8", "U+13F0">>, <<"U+13F9", "U+13F1">>,
    <<"U+13FA", "U+13F2">>, <<"U+13FB", "U+13F3">>, <<"U+13FC", "U+13F4">>,
    <<"U+13FD", "U+13F5">>, <<"U+1C80", "U+0412">>, <<"U+1C81", "U+0414">>,
    <<"U+1C82", "U+041E">>, <<"U+1C83", "U+0421">>, <<"U+1C84", "U+0422">>,
    <<"U+1C85", "U+0422">>, <<"U+1C86", "U+042A">>, <<"U+1C87", "U+0462">>,
    <<"U+1C90", "U+10D0">>, <<"U+1C91", "U+10D1">>, <<"U+1C92", "U+10D2">>,
    <<"U+1C93", "U+10D3">>, <<"U+1C94", "U+10D4">>, <<"U+1C95", "U+10D5">>,
    <<"U+1C96", "U+10D6">>, <<"U+1C97", "U+10D7">>, <<"U+1C98", "U+10D8">>,
    <<"U+1C99", "U+10D9">>, <<"U+1C9A", "U+10DA">>, <<"U+1C9B", "U+10DB">>,
    <<"U+1C9C", "U+10DC">>, <<"U+1C9D", "U+10DD">>, <<"U+1C9E", "U+10DE">>,
    <<"U+1C9F", "U+10DF">>, <<"U+1CA0", "U+10E0">>, <<"U+1CA1", "U+10E1">>,
    <<"U+1CA2", "U+10E2">>, <<"U+1CA3", "U+10E3">>, <<"U+1CA4", "U+10E4">>,
    <<"U+1CA5", "U+10E5">>, <<"U+1CA6", "U+10E6">>, <<"U+1CA7", "U+10E7">>,
    <<"U+1CA8", "U+10E8">>, <<"U+1CA9", "U+10E9">>, <<"U+1CAA", "U+10EA">>,
    <<"U+1CAB", "U+10EB">>, <<"U+1CAC", "U+10EC">>, <<"U+1CAD", "U+10ED">>,
    <<"U+1CAE", "U+10EE">>, <<"U+1CAF", "U+10EF">>, <<"U+1CB0", "U+10F0">>,
    <<"U+1CB1", "U+10F1">>, <<"U+1CB2", "U+10F2">>, <<"U+1CB3", "U+10F3">>,
    <<"U+1CB4", "U+10F4">>, <<"U+1CB5", "U+10F5">>, <<"U+1CB6", "U+10F6">>,
    <<"U+1CB7", "U+10F7">>, <<"U+1CB8", "U+10F8">>, <<"U+1CB9", "U+10F9">>,
    <<"U+1CBA", "U+10FA">>, <<"U+1CBD", "U+10FD">>, <<"U+1CBE", "U+10FE">>,
    <<"U+1CBF", "U+10FF">>, <<"U+1E01", "U+1E00">>, <<"U+1E03", "U+1E02">>,
    <<"U+1E05", "U+1E04">>, <<"U+1E07", "U+1E06">>, <<"U+1E09", "U+1E08">>,
    <<"U+1E0B", "U+1E0A">>, <<"U+1E0D", "U+1E0C">>, <<"U+1E0F", "U+1E0E">>,
    <<"U+1E11", "U+1E10">>, <<"U+1E13", "U+1E12">>, <<"U+1E15", "U+1E14">>,
    <<"U+1E17", "U+1E16">>, <<"U+1E19", "U+1E18">>, <<"U+1E1B", "U+1E1A">>,
    <<"U+1E1D", "U+1E1C">>, <<"U+1E1F", "U+1E1E">>, <<"U+1E21", "U+1E20">>,
    <<"U+1E23", "U+1E22">>, <<"U+1E25", "U+1E24">>, <<"U+1E27", "U+1E26">>,
    <<"U+1E29", "U+1E28">>, <<"U+1E2B", "U+1E2A">>, <<"U+1E2D", "U+1E2C">>,
    <<"U+1E2F", "U+1E2E">>, <<"U+1E31", "U+1E30">>, <<"U+1E33", "U+1E32">>,
    <<"U+1E35", "U+1E34">>, <<"U+1E37", "U+1E36">>, <<"U+1E39", "U+1E38">>,
    <<"U+1E3B", "U+1E3A">>, <<"U+1E3D", "U+1E3C">>, <<"U+1E3F", "U+1E3E">>,
    <<"U+1E41", "U+1E40">>, <<"U+1E43", "U+1E42">>, <<"U+1E45", "U+1E44">>,
    <<"U+1E47", "U+1E46">>, <<"U+1E49", "U+1E48">>, <<"U+1E4B", "U+1E4A">>,
    <<"U+1E4D", "U+1E4C">>, <<"U+1E4F", "U+1E4E">>, <<"U+1E51", "U+1E50">>,
    <<"U+1E53", "U+1E52">>, <<"U+1E55", "U+1E54">>, <<"U+1E57", "U+1E56">>,
    <<"U+1E59", "U+1E58">>, <<"U+1E5B", "U+1E5A">>, <<"U+1E5D", "U+1E5C">>,
    <<"U+1E5F", "U+1E5E">>, <<"U+1E61", "U+1E60">>, <<"U+1E63", "U+1E62">>,
    <<"U+1E65", "U+1E64">>, <<"U+1E67", "U+1E66">>, <<"U+1E69", "U+1E68">>,
    <<"U+1E6B", "U+1E6A">>, <<"U+1E6D", "U+1E6C">>, <<"U+1E6F", "U+1E6E">>,
    <<"U+1E71", "U+1E70">>, <<"U+1E73", "U+1E72">>, <<"U+1E75", "U+1E74">>,
    <<"U+1E77", "U+1E76">>, <<"U+1E79", "U+1E78">>, <<"U+1E7B", "U+1E7A">>,
    <<"U+1E7D", "U+1E7C">>, <<"U+1E7F", "U+1E7E">>, <<"U+1E81", "U+1E80">>,
    <<"U+1E83", "U+1E82">>, <<"U+1E85", "U+1E84">>, <<"U+1E87", "U+1E86">>,
    <<"U+1E89", "U+1E88">>, <<"U+1E8B", "U+1E8A">>, <<"U+1E8D", "U+1E8C">>,
    <<"U+1E8F", "U+1E8E">>, <<"U+1E91", "U+1E90">>, <<"U+1E93", "U+1E92">>,
    <<"U+1E95", "U+1E94">>, <<"U+1E9B", "U+1E60">>, <<"U+1E9E", "U+00DF">>,
    <<"U+1EA1", "U+1EA0">>, <<"U+1EA3", "U+1EA2">>, <<"U+1EA5", "U+1EA4">>,
    <<"U+1EA7", "U+1EA6">>, <<"U+1EA9", "U+1EA8">>, <<"U+1EAB", "U+1EAA">>,
    <<"U+1EAD", "U+1EAC">>, <<"U+1EAF", "U+1EAE">>, <<"U+1EB1", "U+1EB0">>,
    <<"U+1EB3", "U+1EB2">>, <<"U+1EB5", "U+1EB4">>, <<"U+1EB7", "U+1EB6">>,
    <<"U+1EB9", "U+1EB8">>, <<"U+1EBB", "U+1EBA">>, <<"U+1EBD", "U+1EBC">>,
    <<"U+1EBF", "U+1EBE">>, <<"U+1EC1", "U+1EC0">>, <<"U+1EC3", "U+1EC2">>,
    <<"U+1EC5", "U+1EC4">>, <<"U+1EC7", "U+1EC6">>, <<"U+1EC9", "U+1EC8">>,
    <<"U+1ECB", "U+1ECA">>, <<"U+1ECD", "U+1ECC">>, <<"U+1ECF", "U+1ECE">>,
    <<"U+1ED1", "U+1ED0">>, <<"U+1ED3", "U+1ED2">>, <<"U+1ED5", "U+1ED4">>,
    <<"U+1ED7", "U+1ED6">>, <<"U+1ED9", "U+1ED8">>, <<"U+1EDB", "U+1EDA">>,
    <<"U+1EDD", "U+1EDC">>, <<"U+1EDF", "U+1EDE">>, <<"U+1EE1", "U+1EE0">>,
    <<"U+1EE3", "U+1EE2">>, <<"U+1EE5", "U+1EE4">>, <<"U+1EE7", "U+1EE6">>,
    <<"U+1EE9", "U+1EE8">>, <<"U+1EEB", "U+1EEA">>, <<"U+1EED", "U+1EEC">>,
    <<"U+1EEF", "U+1EEE">>, <<"U+1EF1", "U+1EF0">>, <<"U+1EF3", "U+1EF2">>,
    <<"U+1EF5", "U+1EF4">>, <<"U+1EF7", "U+1EF6">>, <<"U+1EF9", "U+1EF8">>,
    <<"U+1EFB", "U+1EFA">>, <<"U+1EFD", "U+1EFC">>, <<"U+1EFF", "U+1EFE">>,
    <<"U+1F08", "U+1F00">>, <<"U+1F09", "U+1F01">>, <<"U+1F0A", "U+1F02">>,
    <<"U+1F0B", "U+1F03">>, <<"U+1F0C", "U+1F04">>, <<"U+1F0D", "U+1F05">>,
    <<"U+1F0E", "U+1F06">>, <<"U+1F0F", "U+1F07">>, <<"U+1F18", "U+1F10">>,
    <<"U+1F19", "U+1F11">>, <<"U+1F1A", "U+1F12">>, <<"U+1F1B", "U+1F13">>,
    <<"U+1F1C", "U+1F14">>, <<"U+1F1D", "U+1F15">>, <<"U+1F28", "U+1F20">>,
    <<"U+1F29", "U+1F21">>, <<"U+1F2A", "U+1F22">>, <<"U+1F2B", "U+1F23">>,
    <<"U+1F2C", "U+1F24">>, <<"U+1F2D", "U+1F25">>, <<"U+1F2E", "U+1F26">>,
    <<"U+1F2F", "U+1F27">>, <<"U+1F38", "U+1F30">>, <<"U+1F39", "U+1F31">>,
    <<"U+1F3A", "U+1F32">>, <<"U+1F3B", "U+1F33">>, <<"U+1F3C", "U+1F34">>,
    <<"U+1F3D", "U+1F35">>, <<"U+1F3E", "U+1F36">>, <<"U+1F3F", "U+1F37">>,
    <<"U+1F48", "U+1F40">>, <<"U+1F49", "U+1F41">>, <<"U+1F4A", "U+1F42">>,
    <<"U+1F4B", "U+1F43">>, <<"U+1F4C", "U+1F44">>, <<"U+1F4D", "U+1F45">>,
    <<"U+1F59", "U+1F51">>, <<"U+1F5B", "U+1F53">>, <<"U+1F5D", "U+1F55">>,
    <<"U+1F5F", "U+1F57">>, <<"U+1F68", "U+1F60">>, <<"U+1F69", "U+1F61">>,
    <<"U+1F6A", "U+1F62">>, <<"U+1F6B", "U+1F63">>, <<"U+1F6C", "U+1F64">>,
    <<"U+1F6D", "U+1F65">>, <<"U+1F6E", "U+1F66">>, <<"U+1F6F", "U+1F67">>,
    <<"U+1F88", "U+1F80">>, <<"U+1F89", "U+1F81">>, <<"U+1F8A", "U+1F82">>,
    <<"U+1F8B", "U+1F83">>, <<"U+1F8C", "U+1F84">>, <<"U+1F8D", "U+1F85">>,
    <<"U+1F8E", "U+1F86">>, <<"U+1F8F", "U+1F87">>, <<"U+1F98", "U+1F90">>,
    <<"U+1F99", "U+1F91">>, <<"U+1F9A", "U+1F92">>, <<"U+1F9B", "U+1F93">>,
    <<"U+1F9C", "U+1F94">>, <<"U+1F9D", "U+1F95">>, <<"U+1F9E", "U+1F96">>,
    <<"U+1F9F", "U+1F97">>, <<"U+1FA8", "U+1FA0">>, <<"U+1FA9", "U+1FA1">>,
    <<"U+1FAA", "U+1FA2">>, <<"U+1FAB", "U+1FA3">>, <<"U+1FAC", "U+1FA4">>,
    <<"U+1FAD", "U+1FA5">>, <<"U+1FAE", "U+1FA6">>, <<"U+1FAF", "U+1FA7">>,
    <<"U+1FB8", "U+1FB0">>, <<"U+1FB9", "U+1FB1">>, <<"U+1FBA", "U+1F70">>,
    <<"U+1FBB", "U+1F71">>, <<"U+1FBC", "U+1FB3">>, <<"U+1FBE", "U+0345">>,
    <<"U+1FC8", "U+1F72">>, <<"U+1FC9", "U+1F73">>, <<"U+1FCA", "U+1F74">>,
    <<"U+1FCB", "U+1F75">>, <<"U+1FCC", "U+1FC3">>, <<"U+1FD8", "U+1FD0">>,
    <<"U+1FD9", "U+1FD1">>, <<"U+1FDA", "U+1F76">>, <<"U+1FDB", "U+1F77">>,
    <<"U+1FE8", "U+1FE0">>, <<"U+1FE9", "U+1FE1">>, <<"U+1FEA", "U+1F7A">>,
    <<"U+1FEB", "U+1F7B">>, <<"U+1FEC", "U+1FE5">>, <<"U+1FF8", "U+1F78">>,
    <<"U+1FF9", "U+1F79">>, <<"U+1FFA", "U+1F7C">>, <<"U+1FFB", "U+1F7D">>,
    <<"U+1FFC", "U+1FF3">>, <<"U+2126", "U+03A9">>, <<"U+212A", "K">>,
    <<"U+212B", "U+00C5">>, <<"U+214E", "U+2132">>, <<"U+2170", "U+2160">>,
    <<"U+2171", "U+2161">>, <<"U+2172", "U+2162">>, <<"U+2173", "U+2163">>,
    <<"U+2174", "U+2164">>, <<"U+2175", "U+2165">>, <<"U+2176", "U+2166">>,
    <<"U+2177", "U+2167">>, <<"U+2178", "U+2168">>, <<"U+2179", "U+2169">>,
    <<"U+217A", "U+216A">>, <<"U+217B", "U+216B">>, <<"U+217C", "U+216C">>,
    <<"U+217D", "U+216D">>, <<"U+217E", "U+216E">>, <<"U+217F", "U+216F">>,
    <<"U+2184", "U+2183">>, <<"U+24D0", "U+24B6">>, <<"U+24D1", "U+24B7">>,
    <<"U+24D2", "U+24B8">>, <<"U+24D3", "U+24B9">>, <<"U+24D4", "U+24BA">>,
    <<"U+24D5", "U+24BB">>, <<"U+24D6", "U+24BC">>, <<"U+24D7", "U+24BD">>,
    <<"U+24D8", "U+24BE">>, <<"U+24D9", "U+24BF">>, <<"U+24DA", "U+24C0">>,
    <<"U+24DB", "U+24C1">>, <<"U+24DC", "U+24C2">>, <<"U+24DD", "U+24C3">>,
    <<"U+24DE", "U+24C4">>, <<"U+24DF", "U+24C5">>, <<"U+24E0", "U+24C6">>,
    <<"U+24E1", "U+24C7">>, <<"U+24E2", "U+24C8">>, <<"U+24E3", "U+24C9">>,
    <<"U+24E4", "U+24CA">>, <<"U+24E5", "U+24CB">>, <<"U+24E6", "U+24CC">>,
    <<"U+24E7", "U+24CD">>, <<"U+24E8", "U+24CE">>, <<"U+24E9", "U+24CF">>,
    <<"U+2C30", "U+2C00">>, <<"U+2C31", "U+2C01">>, <<"U+2C32", "U+2C02">>,
    <<"U+2C33", "U+2C03">>, <<"U+2C34", "U+2C04">>, <<"U+2C35", "U+2C05">>,
    <<"U+2C36", "U+2C06">>, <<"U+2C37", "U+2C07">>, <<"U+2C38", "U+2C08">>,
    <<"U+2C39", "U+2C09">>, <<"U+2C3A", "U+2C0A">>, <<"U+2C3B", "U+2C0B">>,
    <<"U+2C3C", "U+2C0C">>, <<"U+2C3D", "U+2C0D">>, <<"U+2C3E", "U+2C0E">>,
    <<"U+2C3F", "U+2C0F">>, <<"U+2C40", "U+2C10">>, <<"U+2C41", "U+2C11">>,
    <<"U+2C42", "U+2C12">>, <<"U+2C43", "U+2C13">>, <<"U+2C44", "U+2C14">>,
    <<"U+2C45", "U+2C15">>, <<"U+2C46", "U+2C16">>, <<"U+2C47", "U+2C17">>,
    <<"U+2C48", "U+2C18">>, <<"U+2C49", "U+2C19">>, <<"U+2C4A", "U+2C1A">>,
    <<"U+2C4B", "U+2C1B">>, <<"U+2C4C", "U+2C1C">>, <<"U+2C4D", "U+2C1D">>,
    <<"U+2C4E", "U+2C1E">>, <<"U+2C4F", "U+2C1F">>, <<"U+2C50", "U+2C20">>,
    <<"U+2C51", "U+2C21">>, <<"U+2C52", "U+2C22">>, <<"U+2C53", "U+2C23">>,
    <<"U+2C54", "U+2C24">>, <<"U+2C55", "U+2C25">>, <<"U+2C56", "U+2C26">>,
    <<"U+2C57", "U+2C27">>, <<"U+2C58", "U+2C28">>, <<"U+2C59", "U+2C29">>,
    <<"U+2C5A", "U+2C2A">>, <<"U+2C5B", "U+2C2B">>, <<"U+2C5C", "U+2C2C">>,
    <<"U+2C5D", "U+2C2D">>, <<"U+2C5E", "U+2C2E">>, <<"U+2C5F", "U+2C2F">>,
    <<"U+2C61", "U+2C60">>, <<"U+2C62", "U+026B">>, <<"U+2C63", "U+1D7D">>,
    <<"U+2C64", "U+027D">>, <<"U+2C65", "U+023A">>, <<"U+2C66", "U+023E">>,
    <<"U+2C68", "U+2C67">>, <<"U+2C6A", "U+2C69">>, <<"U+2C6C", "U+2C6B">>,
    <<"U+2C6D", "U+0251">>, <<"U+2C6E", "U+0271">>, <<"U+2C6F", "U+0250">>,
    <<"U+2C70", "U+0252">>, <<"U+2C73", "U+2C72">>, <<"U+2C76", "U+2C75">>,
    <<"U+2C7E", "U+023F">>, <<"U+2C7F", "U+0240">>, <<"U+2C81", "U+2C80">>,
    <<"U+2C83", "U+2C82">>, <<"U+2C85", "U+2C84">>, <<"U+2C87", "U+2C86">>,
    <<"U+2C89", "U+2C88">>, <<"U+2C8B", "U+2C8A">>, <<"U+2C8D", "U+2C8C">>,
    <<"U+2C8F", "U+2C8E">>, <<"U+2C91", "U+2C90">>, <<"U+2C93", "U+2C92">>,
    <<"U+2C95", "U+2C94">>, <<"U+2C97", "U+2C96">>, <<"U+2C99", "U+2C98">>,
    <<"U+2C9B", "U+2C9A">>, <<"U+2C9D", "U+2C9C">>, <<"U+2C9F", "U+2C9E">>,
    <<"U+2CA1", "U+2CA0">>, <<"U+2CA3", "U+2CA2">>, <<"U+2CA5", "U+2CA4">>,
    <<"U+2CA7", "U+2CA6">>, <<"U+2CA9", "U+2CA8">>, <<"U+2CAB", "U+2CAA">>,
    <<"U+2CAD", "U+2CAC">>, <<"U+2CAF", "U+2CAE">>, <<"U+2CB1", "U+2CB0">>,
    <<"U+2CB3", "U+2CB2">>, <<"U+2CB5", "U+2CB4">>, <<"U+2CB7", "U+2CB6">>,
    <<"U+2CB9", "U+2CB8">>, <<"U+2CBB", "U+2CBA">>, <<"U+2CBD", "U+2CBC">>,
    <<"U+2CBF", "U+2CBE">>, <<"U+2CC1", "U+2CC0">>, <<"U+2CC3", "U+2CC2">>,
    <<"U+2CC5", "U+2CC4">>, <<"U+2CC7", "U+2CC6">>, <<"U+2CC9", "U+2CC8">>,
    <<"U+2CCB", "U+2CCA">>, <<"U+2CCD", "U+2CCC">>, <<"U+2CCF", "U+2CCE">>,
    <<"U+2CD1", "U+2CD0">>, <<"U+2CD3", "U+2CD2">>, <<"U+2CD5", "U+2CD4">>,
    <<"U+2CD7", "U+2CD6">>, <<"U+2CD9", "U+2CD8">>, <<"U+2CDB", "U+2CDA">>,
    <<"U+2CDD", "U+2CDC">>, <<"U+2CDF", "U+2CDE">>, <<"U+2CE1", "U+2CE0">>,
    <<"U+2CE3", "U+2CE2">>, <<"U+2CEC", "U+2CEB">>, <<"U+2CEE", "U+2CED">>,
    <<"U+2CF3", "U+2CF2">>, <<"U+2D00", "U+10A0">>, <<"U+2D01", "U+10A1">>,
    <<"U+2D02", "U+10A2">>, <<"U+2D03", "U+10A3">>, <<"U+2D04", "U+10A4">>,
    <<"U+2D05", "U+10A5">>, <<"U+2D06", "U+10A6">>, <<"U+2D07", "U+10A7">>,
    <<"U+2D08", "U+10A8">>, <<"U+2D09", "U+10A9">>, <<"U+2D0A", "U+10AA">>,
    <<"U+2D0B", "U+10AB">>, <<"U+2D0C", "U+10AC">>, <<"U+2D0D", "U+10AD">>,
    <<"U+2D0E", "U+10AE">>, <<"U+2D0F", "U+10AF">>, <<"U+2D10", "U+10B0">>,
    <<"U+2D11", "U+10B1">>, <<"U+2D12", "U+10B2">>, <<"U+2D13", "U+10B3">>,
    <<"U+2D14", "U+10B4">>, <<"U+2D15", "U+10B5">>, <<"U+2D16", "U+10B6">>,
    <<"U+2D17", "U+10B7">>, <<"U+2D18", "U+10B8">>, <<"U+2D19", "U+10B9">>,
    <<"U+2D1A", "U+10BA">>, <<"U+2D1B", "U+10BB">>, <<"U+2D1C", "U+10BC">>,
    <<"U+2D1D", "U+10BD">>, <<"U+2D1E", "U+10BE">>, <<"U+2D1F", "U+10BF">>,
    <<"U+2D20", "U+10C0">>, <<"U+2D21", "U+10C1">>, <<"U+2D22", "U+10C2">>,
    <<"U+2D23", "U+10C3">>, <<"U+2D24", "U+10C4">>, <<"U+2D25", "U+10C5">>,
    <<"U+2D27", "U+10C7">>, <<"U+2D2D", "U+10CD">>, <<"U+A641", "U+A640">>,
    <<"U+A643", "U+A642">>, <<"U+A645", "U+A644">>, <<"U+A647", "U+A646">>,
    <<"U+A649", "U+A648">>, <<"U+A64A", "U+1C88">>, <<"U+A64B", "U+1C88">>,
    <<"U+A64D", "U+A64C">>, <<"U+A64F", "U+A64E">>, <<"U+A651", "U+A650">>,
    <<"U+A653", "U+A652">>, <<"U+A655", "U+A654">>, <<"U+A657", "U+A656">>,
    <<"U+A659", "U+A658">>, <<"U+A65B", "U+A65A">>, <<"U+A65D", "U+A65C">>,
    <<"U+A65F", "U+A65E">>, <<"U+A661", "U+A660">>, <<"U+A663", "U+A662">>,
    <<"U+A665", "U+A664">>, <<"U+A667", "U+A666">>, <<"U+A669", "U+A668">>,
    <<"U+A66B", "U+A66A">>, <<"U+A66D", "U+A66C">>, <<"U+A681", "U+A680">>,
    <<"U+A683", "U+A682">>, <<"U+A685", "U+A684">>, <<"U+A687", "U+A686">>,
    <<"U+A689", "U+A688">>, <<"U+A68B", "U+A68A">>, <<"U+A68D", "U+A68C">>,
    <<"U+A68F", "U+A68E">>, <<"U+A691", "U+A690">>, <<"U+A693", "U+A692">>,
    <<"U+A695", "U+A694">>, <<"U+A697", "U+A696">>, <<"U+A699", "U+A698">>,
    <<"U+A69B", "U+A69A">>, <<"U+A723", "U+A722">>, <<"U+A725", "U+A724">>,
    <<"U+A727", "U+A726">>, <<"U+A729", "U+A728">>, <<"U+A72B", "U+A72A">>,
    <<"U+A72D", "U+A72C">>, <<"U+A72F", "U+A72E">>, <<"U+A733", "U+A732">>,
    <<"U+A735", "U+A734">>, <<"U+A737", "U+A736">>, <<"U+A739", "U+A738">>,
    <<"U+A73B", "U+A73A">>, <<"U+A73D", "U+A73C">>, <<"U+A73F", "U+A73E">>,
    <<"U+A741", "U+A740">>, <<"U+A743", "U+A742">>, <<"U+A745", "U+A744">>,
    <<"U+A747", "U+A746">>, <<"U+A749", "U+A748">>, <<"U+A74B", "U+A74A">>,
    <<"U+A74D", "U+A74C">>, <<"U+A74F", "U+A74E">>, <<"U+A751", "U+A750">>,
    <<"U+A753", "U+A752">>, <<"U+A755", "U+A754">>, <<"U+A757", "U+A756">>,
    <<"U+A759", "U+A758">>, <<"U+A75B", "U+A75A">>, <<"U+A75D", "U+A75C">>,
    <<"U+A75F", "U+A75E">>, <<"U+A761", "U+A760">>, <<"U+A763", "U+A762">>,
    <<"U+A765", "U+A764">>, <<"U+A767", "U+A766">>, <<"U+A769", "U+A768">>,
    <<"U+A76B", "U+A76A">>, <<"U+A76D", "U+A76C">>, <<"U+A76F", "U+A76E">>,
    <<"U+A77A", "U+A779">>, <<"U+A77C", "U+A77B">>, <<"U+A77D", "U+1D79">>,
    <<"U+A77F", "U+A77E">>, <<"U+A781", "U+A780">>, <<"U+A783", "U+A782">>,
    <<"U+A785", "U+A784">>, <<"U+A787", "U+A786">>, <<"U+A78C", "U+A78B">>,
    <<"U+A78D", "U+0265">>, <<"U+A791", "U+A790">>, <<"U+A793", "U+A792">>,
    <<"U+A797", "U+A796">>, <<"U+A799", "U+A798">>, <<"U+A79B", "U+A79A">>,
    <<"U+A79D", "U+A79C">>, <<"U+A79F", "U+A79E">>, <<"U+A7A1", "U+A7A0">>,
    <<"U+A7A3", "U+A7A2">>, <<"U+A7A5", "U+A7A4">>, <<"U+A7A7", "U+A7A6">>,
    <<"U+A7A9", "U+A7A8">>, <<"U+A7AA", "U+0266">>, <<"U+A7AB", "U+025C">>,
    <<"U+A7AC", "U+0261">>, <<"U+A7AD", "U+026C">>, <<"U+A7AE", "U+026A">>,
    <<"U+A7B0", "U+029E">>, <<"U+A7B1", "U+0287">>, <<"U+A7B2", "U+029D">>,
    <<"U+A7B5", "U+A7B4">>, <<"U+A7B7", "U+A7B6">>, <<"U+A7B9", "U+A7B8">>,
    <<"U+A7BB", "U+A7BA">>, <<"U+A7BD", "U+A7BC">>, <<"U+A7BF", "U+A7BE">>,
    <<"U+A7C1", "U+A7C0">>, <<"U+A7C3", "U+A7C2">>, <<"U+A7C4", "U+A794">>,
    <<"U+A7C5", "U+0282">>, <<"U+A7C6", "U+1D8E">>, <<"U+A7C8", "U+A7C7">>,
    <<"U+A7CA", "U+A7C9">>, <<"U+A7D1", "U+A7D0">>, <<"U+A7D7", "U+A7D6">>,
    <<"U+A7D9", "U+A7D8">>, <<"U+A7F6", "U+A7F5">>, <<"U+AB53", "U+A7B3">>,
    <<"U+AB70", "U+13A0">>, <<"U+AB71", "U+13A1">>, <<"U+AB72", "U+13A2">>,
    <<"U+AB73", "U+13A3">>, <<"U+AB74", "U+13A4">>, <<"U+AB75", "U+13A5">>,
    <<"U+AB76", "U+13A6">>, <<"U+AB77", "U+13A7">>, <<"U+AB78", "U+13A8">>,
    <<"U+AB79", "U+13A9">>, <<"U+AB7A", "U+13AA">>, <<"U+AB7B", "U+13AB">>,
    <<"U+AB7C", "U+13AC">>, <<"U+AB7D", "U+13AD">>, <<"U+AB7E", "U+13AE">>,
    <<"U+AB7F", "U+13AF">>, <<"U+AB80", "U+13B0">>, <<"U+AB81", "U+13B1">>,
    <<"U+AB82", "U+13B2">>, <<"U+AB83", "U+13B3">>, <<"U+AB84", "U+13B4">>,
    <<"U+AB85", "U+13B5">>, <<"U+AB86", "U+13B6">>, <<"U+AB87", "U+13B7">>,
    <<"U+AB88", "U+13B8">>, <<"U+AB89", "U+13B9">>, <<"U+AB8A", "U+13BA">>,
    <<"U+AB8B", "U+13BB">>, <<"U+AB8C", "U+13BC">>, <<"U+AB8D", "U+13BD">>,
    <<"U+AB8E", "U+13BE">>, <<"U+AB8F", "U+13BF">>, <<"U+AB90", "U+13C0">>,
    <<"U+AB91", "U+13C1">>, <<"U+AB92", "U+13C2">>, <<"U+AB93", "U+13C3">>,
    <<"U+AB94", "U+13C4">>, <<"U+AB95", "U+13C5">>, <<"U+AB96", "U+13C6">>,
    <<"U+AB97", "U+13C7">>, <<"U+AB98", "U+13C8">>, <<"U+AB99", "U+13C9">>,
    <<"U+AB9A", "U+13CA">>, <<"U+AB9B", "U+13CB">>, <<"U+AB9C", "U+13CC">>,
    <<"U+AB9D", "U+13CD">>, <<"U+AB9E", "U+13CE">>, <<"U+AB9F", "U+13CF">>,
    <<"U+ABA0", "U+13D0">>, <<"U+ABA1", "U+13D1">>, <<"U+ABA2", "U+13D2">>,
    <<"U+ABA3", "U+13D3">>, <<"U+ABA4", "U+13D4">>, <<"U+ABA5", "U+13D5">>,
    <<"U+ABA6", "U+13D6">>, <<"U+ABA7", "U+13D7">>, <<"U+ABA8", "U+13D8">>,
    <<"U+ABA9", "U+13D9">>, <<"U+ABAA", "U+13DA">>, <<"U+ABAB", "U+13DB">>,
    <<"U+ABAC", "U+13DC">>, <<"U+ABAD", "U+13DD">>, <<"U+ABAE", "U+13DE">>,
    <<"U+ABAF", "U+13DF">>, <<"U+ABB0", "U+13E0">>, <<"U+ABB1", "U+13E1">>,
    <<"U+ABB2", "U+13E2">>, <<"U+ABB3", "U+13E3">>, <<"U+ABB4", "U+13E4">>,
    <<"U+ABB5", "U+13E5">>, <<"U+ABB6", "U+13E6">>, <<"U+ABB7", "U+13E7">>,
    <<"U+ABB8", "U+13E8">>, <<"U+ABB9", "U+13E9">>, <<"U+ABBA", "U+13EA">>,
    <<"U+ABBB", "U+13EB">>, <<"U+ABBC", "U+13EC">>, <<"U+ABBD", "U+13ED">>,
    <<"U+ABBE", "U+13EE">>, <<"U+ABBF", "U+13EF">>, <<"U+FF41", "U+FF21">>,
    <<"U+FF42", "U+FF22">>, <<"U+FF43", "U+FF23">>, <<"U+FF44", "U+FF24">>,
    <<"U+FF45", "U+FF25">>, <<"U+FF46", "U+FF26">>, <<"U+FF47", "U+FF27">>,
    <<"U+FF48", "U+FF28">>, <<"U+FF49", "U+FF29">>, <<"U+FF4A", "U+FF2A">>,
    <<"U+FF4B", "U+FF2B">>, <<"U+FF4C", "U+FF2C">>, <<"U+FF4D", "U+FF2D">>,
    <<"U+FF4E", "U+FF2E">>, <<"U+FF4F", "U+FF2F">>, <<"U+FF50", "U+FF30">>,
    <<"U+FF51", "U+FF31">>, <<"U+FF52", "U+FF32">>, <<"U+FF53", "U+FF33">>,
    <<"U+FF54", "U+FF34">>, <<"U+FF55", "U+FF35">>, <<"U+FF56", "U+FF36">>,
    <<"U+FF57", "U+FF37">>, <<"U+FF58", "U+FF38">>, <<"U+FF59", "U+FF39">>,
    <<"U+FF5A", "U+FF3A">>, <<"U+10428", "U+10400">>, <<"U+10429", "U+10401">>,
    <<"U+1042A", "U+10402">>, <<"U+1042B", "U+10403">>, <<"U+1042C", "U+10404">>,
    <<"U+1042D", "U+10405">>, <<"U+1042E", "U+10406">>, <<"U+1042F", "U+10407">>,
    <<"U+10430", "U+10408">>, <<"U+10431", "U+10409">>, <<"U+10432", "U+1040A">>,
    <<"U+10433", "U+1040B">>, <<"U+10434", "U+1040C">>, <<"U+10435", "U+1040D">>,
    <<"U+10436", "U+1040E">>, <<"U+10437", "U+1040F">>, <<"U+10438", "U+10410">>,
    <<"U+10439", "U+10411">>, <<"U+1043A", "U+10412">>, <<"U+1043B", "U+10413">>,
    <<"U+1043C", "U+10414">>, <<"U+1043D", "U+10415">>, <<"U+1043E", "U+10416">>,
    <<"U+1043F", "U+10417">>, <<"U+10440", "U+10418">>, <<"U+10441", "U+10419">>,
    <<"U+10442", "U+1041A">>, <<"U+10443", "U+1041B">>, <<"U+10444", "U+1041C">>,
    <<"U+10445", "U+1041D">>, <<"U+10446", "U+1041E">>, <<"U+10447", "U+1041F">>,
    <<"U+10448", "U+10420">>, <<"U+10449", "U+10421">>, <<"U+1044A", "U+10422">>,
    <<"U+1044B", "U+10423">>, <<"U+1044C", "U+10424">>, <<"U+1044D", "U+10425">>,
    <<"U+1044E", "U+10426">>, <<"U+1044F", "U+10427">>, <<"U+104D8", "U+104B0">>,
    <<"U+104D9", "U+104B1">>, <<"U+104DA", "U+104B2">>, <<"U+104DB", "U+104B3">>,
    <<"U+104DC", "U+104B4">>, <<"U+104DD", "U+104B5">>, <<"U+104DE", "U+104B6">>,
    <<"U+104DF", "U+104B7">>, <<"U+104E0", "U+104B8">>, <<"U+104E1", "U+104B9">>,
    <<"U+104E2", "U+104BA">>, <<"U+104E3", "U+104BB">>, <<"U+104E4", "U+104BC">>,
    <<"U+104E5", "U+104BD">>, <<"U+104E6", "U+104BE">>, <<"U+104E7", "U+104BF">>,
    <<"U+104E8", "U+104C0">>, <<"U+104E9", "U+104C1">>, <<"U+104EA", "U+104C2">>,
    <<"U+104EB", "U+104C3">>, <<"U+104EC", "U+104C4">>, <<"U+104ED", "U+104C5">>,
    <<"U+104EE", "U+104C6">>, <<"U+104EF", "U+104C7">>, <<"U+104F0", "U+104C8">>,
    <<"U+104F1", "U+104C9">>, <<"U+104F2", "U+104CA">>, <<"U+104F3", "U+104CB">>,
    <<"U+104F4", "U+104CC">>, <<"U+104F5", "U+104CD">>, <<"U+104F6", "U+104CE">>,
    <<"U+104F7", "U+104CF">>, <<"U+104F8", "U+104D0">>, <<"U+104F9", "U+104D1">>,
    <<"U+104FA", "U+104D2">>, <<"U+104FB", "U+104D3">>, <<"U+10597", "U+10570">>,
    <<"U+10598", "U+10571">>, <<"U+10599", "U+10572">>, <<"U+1059A", "U+10573">>,
    <<"U+1059B", "U+10574">>, <<"U+1059C", "U+10575">>, <<"U+1059D", "U+10576">>,
    <<"U+1059E", "U+10577">>, <<"U+1059F", "U+10578">>, <<"U+105A0", "U+10579">>,
    <<"U+105A1", "U+1057A">>, <<"U+105A3", "U+1057C">>, <<"U+105A4", "U+1057D">>,
    <<"U+105A5", "U+1057E">>, <<"U+105A6", "U+1057F">>, <<"U+105A7", "U+10580">>,
    <<"U+105A8", "U+10581">>, <<"U+105A9", "U+10582">>, <<"U+105AA", "U+10583">>,
    <<"U+105AB", "U+10584">>, <<"U+105AC", "U+10585">>, <<"U+105AD", "U+10586">>,
    <<"U+105AE", "U+10587">>, <<"U+105AF", "U+10588">>, <<"U+105B0", "U+10589">>,
    <<"U+105B1", "U+1058A">>, <<"U+105B3", "U+1058C">>, <<"U+105B4", "U+1058D">>,
    <<"U+105B5", "U+1058E">>, <<"U+105B6", "U+1058F">>, <<"U+105B7", "U+10590">>,
    <<"U+105B8", "U+10591">>, <<"U+105B9", "U+10592">>, <<"U+105BB", "U+10594">>,
    <<"U+105BC", "U+10595">>, <<"U+10CC0", "U+10C80">>, <<"U+10CC1", "U+10C81">>,
    <<"U+10CC2", "U+10C82">>, <<"U+10CC3", "U+10C83">>, <<"U+10CC4", "U+10C84">>,
    <<"U+10CC5", "U+10C85">>, <<"U+10CC6", "U+10C86">>, <<"U+10CC7", "U+10C87">>,
    <<"U+10CC8", "U+10C88">>, <<"U+10CC9", "U+10C89">>, <<"U+10CCA", "U+10C8A">>,
    <<"U+10CCB", "U+10C8B">>, <<"U+10CCC", "U+10C8C">>, <<"U+10CCD", "U+10C8D">>,
    <<"U+10CCE", "U+10C8E">>, <<"U+10CCF", "U+10C8F">>, <<"U+10CD0", "U+10C90">>,
    <<"U+10CD1", "U+10C91">>, <<"U+10CD2", "U+10C92">>, <<"U+10CD3", "U+10C93">>,
    <<"U+10CD4", "U+10C94">>, <<"U+10CD5", "U+10C95">>, <<"U+10CD6", "U+10C96">>,
    <<"U+10CD7", "U+10C97">>, <<"U+10CD8", "U+10C98">>, <<"U+10CD9", "U+10C99">>,
    <<"U+10CDA", "U+10C9A">>, <<"U+10CDB", "U+10C9B">>, <<"U+10CDC", "U+10C9C">>,
    <<"U+10CDD", "U+10C9D">>, <<"U+10CDE", "U+10C9E">>, <<"U+10CDF", "U+10C9F">>,
    <<"U+10CE0", "U+10CA0">>, <<"U+10CE1", "U+10CA1">>, <<"U+10CE2", "U+10CA2">>,
    <<"U+10CE3", "U+10CA3">>, <<"U+10CE4", "U+10CA4">>, <<"U+10CE5", "U+10CA5">>,
    <<"U+10CE6", "U+10CA6">>, <<"U+10CE7", "U+10CA7">>, <<"U+10CE8", "U+10CA8">>,
    <<"U+10CE9", "U+10CA9">>, <<"U+10CEA", "U+10CAA">>, <<"U+10CEB", "U+10CAB">>,
    <<"U+10CEC", "U+10CAC">>, <<"U+10CED", "U+10CAD">>, <<"U+10CEE", "U+10CAE">>,
    <<"U+10CEF", "U+10CAF">>, <<"U+10CF0", "U+10CB0">>, <<"U+10CF1", "U+10CB1">>,
    <<"U+10CF2", "U+10CB2">>, <<"U+118C0", "U+118A0">>, <<"U+118C1", "U+118A1">>,
    <<"U+118C2", "U+118A2">>, <<"U+118C3", "U+118A3">>, <<"U+118C4", "U+118A4">>,
    <<"U+118C5", "U+118A5">>, <<"U+118C6", "U+118A6">>, <<"U+118C7", "U+118A7">>,
    <<"U+118C8", "U+118A8">>, <<"U+118C9", "U+118A9">>, <<"U+118CA", "U+118AA">>,
    <<"U+118CB", "U+118AB">>, <<"U+118CC", "U+118AC">>, <<"U+118CD", "U+118AD">>,
    <<"U+118CE", "U+118AE">>, <<"U+118CF", "U+118AF">>, <<"U+118D0", "U+118B0">>,
    <<"U+118D1", "U+118B1">>, <<"U+118D2", "U+118B2">>, <<"U+118D3", "U+118B3">>,
    <<"U+118D4", "U+118B4">>, <<"U+118D5", "U+118B5">>, <<"U+118D6", "U+118B6">>,
    <<"U+118D7", "U+118B7">>, <<"U+118D8", "U+118B8">>, <<"U+118D9", "U+118B9">>,
    <<"U+118DA", "U+118BA">>, <<"U+118DB", "U+118BB">>, <<"U+118DC", "U+118BC">>,
    <<"U+118DD", "U+118BD">>, <<"U+118DE", "U+118BE">>, <<"U+118DF", "U+118BF">>,
    <<"U+16E60", "U+16E40">>, <<"U+16E61", "U+16E41">>, <<"U+16E62", "U+16E42">>,
    <<"U+16E63", "U+16E43">>, <<"U+16E64", "U+16E44">>, <<"U+16E65", "U+16E45">>,
    <<"U+16E66", "U+16E46">>, <<"U+16E67", "U+16E47">>, <<"U+16E68", "U+16E48">>,
    <<"U+16E69", "U+16E49">>, <<"U+16E6A", "U+16E4A">>, <<"U+16E6B", "U+16E4B">>,
    <<"U+16E6C", "U+16E4C">>, <<"U+16E6D", "U+16E4D">>, <<"U+16E6E", "U+16E4E">>,
    <<"U+16E6F", "U+16E4F">>, <<"U+16E70", "U+16E50">>, <<"U+16E71", "U+16E51">>,
    <<"U+16E72", "U+16E52">>, <<"U+16E73", "U+16E53">>, <<"U+16E74", "U+16E54">>,
    <<"U+16E75", "U+16E55">>, <<"U+16E76", "U+16E56">>, <<"U+16E77", "U+16E57">>,
    <<"U+16E78", "U+16E58">>, <<"U+16E79", "U+16E59">>, <<"U+16E7A", "U+16E5A">>,
    <<"U+16E7B", "U+16E5B">>, <<"U+16E7C", "U+16E5C">>, <<"U+16E7D", "U+16E5D">>,
    <<"U+16E7E", "U+16E5E">>, <<"U+16E7F", "U+16E5F">>, <<"U+1E922", "U+1E900">>,
    <<"U+1E923", "U+1E901">>, <<"U+1E924", "U+1E902">>, <<"U+1E925", "U+1E903">>,
    <<"U+1E926", "U+1E904">>, <<"U+1E927", "U+1E905">>, <<"U+1E928", "U+1E906">>,
    <<"U+1E929", "U+1E907">>, <<"U+1E92A", "U+1E908">>, <<"U+1E92B", "U+1E909">>,
    <<"U+1E92C", "U+1E90A">>, <<"U+1E92D", "U+1E90B">>, <<"U+1E92E", "U+1E90C">>,
    <<"U+1E92F", "U+1E90D">>, <<"U+1E930", "U+1E90E">>, <<"U+1E931", "U+1E90F">>,
    <<"U+1E932", "U+1E910">>, <<"U+1E933", "U+1E911">>, <<"U+1E934", "U+1E912">>,
    <<"U+1E935", "U+1E913">>, <<"U+1E936", "U+1E914">>, <<"U+1E937", "U+1E915">>,
    <<"U+1E938", "U+1E916">>, <<"U+1E939", "U+1E917">>, <<"U+1E93A", "U+1E918">>,
    <<"U+1E93B", "U+1E919">>, <<"U+1E93C", "U+1E91A">>, <<"U+1E93D", "U+1E91B">>,
    <<"U+1E93E", "U+1E91C">>, <<"U+1E93F", "U+1E91D">>, <<"U+1E940", "U+1E91E">>,
    <<"U+1E941", "U+1E91F">>, <<"U+1E942", "U+1E920">>, <<"U+1E943", "U+1E921">>>>

UnicodeFold == FcnOf(FoldPairs)

\* encoding/json's foldRune with the ASCII rule of appendFoldedName: a-z
\* become A-Z, a character outside ASCII becomes the smallest character of
\* its SimpleFold class, every other character is kept
foldRune(c) ==
  IF c \in DOMAIN UpperOf THEN UpperOf[c]
  ELSE Mapped(UnicodeFold, c)

\* encoding/json's folded form of a name: two names have the same folded
\* form exactly when bytes.EqualFold holds them equal
foldName(s) == [i \in 1..Len(s) |-> foldRune(s[i])]

\* encoding/json finds the field of a key by the exact name first, and then
\* by the folded name
KeyIs(key, name) == key = name \/ foldName(key) = foldName(name)

Decoded(val) == [err |-> FALSE, val |-> val]
DecodeError == [err |-> TRUE, val |-> <<>>]

\* a string field: a string sets it, null leaves it, anything else is a
\* type error
DecodeString(old, v) ==
  IF v.t = "str" THEN Decoded(v.s)
  ELSE IF v.t = "null" THEN Decoded(old)
  ELSE DecodeError

\* the members of a rule object from index i, decoded into rule
RECURSIVE DecodeRuleMembers(_, _, _)
DecodeRuleMembers(members, i, rule) ==
  IF i > Len(members) THEN Decoded(rule)
  ELSE IF KeyIs(members[i].key, KeyAction)
       THEN LET d == DecodeString(rule.Action, members[i].val) IN
            IF d.err THEN DecodeError
            ELSE DecodeRuleMembers(members, i + 1,
                                   [rule EXCEPT !.Action = d.val])
  ELSE IF KeyIs(members[i].key, KeyTarget)
       THEN LET d == DecodeString(rule.Target, members[i].val) IN
            IF d.err THEN DecodeError
            ELSE DecodeRuleMembers(members, i + 1,
                                   [rule EXCEPT !.Target = d.val])
  ELSE DecodeRuleMembers(members, i + 1, rule)

\* one element of the egress array decoded into the EgressRule old: null
\* leaves a struct as it is
DecodeRule(old, v) ==
  IF v.t = "null" THEN Decoded(old)
  ELSE IF v.t = "obj" THEN DecodeRuleMembers(v.items, 1, old)
  ELSE DecodeError

\* the elements of an array from index i decoded into the slice whose
\* backing array is backing: an element the array already has is decoded
\* into as it is, not zeroed; a new one starts as the zero rule
RECURSIVE DecodeElements(_, _, _)
DecodeElements(items, i, backing) ==
  IF i > Len(items) THEN Decoded(backing)
  ELSE LET d == DecodeRule(IF i <= Len(backing) THEN backing[i]
                           ELSE ZeroRule, items[i])
       IN IF d.err THEN DecodeError
          ELSE DecodeElements(items, i + 1,
                 IF i <= Len(backing) THEN [backing EXCEPT ![i] = d.val]
                 ELSE Append(backing, d.val))

\* the egress field: null is the nil slice and [] a new empty slice, an
\* array its rules; val is the slice and its backing array
DecodeEgress(backing, v) ==
  IF v.t = "null" \/ (v.t = "arr" /\ v.items = <<>>)
  THEN Decoded([Egress |-> <<>>, backing |-> <<>>])
  ELSE IF v.t # "arr" THEN DecodeError
  ELSE LET d == DecodeElements(v.items, 1, backing) IN
       IF d.err THEN DecodeError
       ELSE Decoded([Egress |-> SubSeq(d.val, 1, Len(v.items)),
                     backing |-> d.val])

\* the members of the policy object from index i, decoded into p; backing
\* is the backing array of p.Egress
RECURSIVE DecodePolicyMembers(_, _, _, _)
DecodePolicyMembers(members, i, p, backing) ==
  IF i > Len(members) THEN Decoded(p)
  ELSE IF KeyIs(members[i].key, KeyEgress)
       THEN LET d == DecodeEgress(backing, members[i].val) IN
            IF d.err THEN DecodeError
            ELSE DecodePolicyMembers(members, i + 1,
                                     [p EXCEPT !.Egress = d.val.Egress],
                                     d.val.backing)
  ELSE IF KeyIs(members[i].key, KeyDefaultAction)
       THEN LET d == DecodeString(p.DefaultAction, members[i].val) IN
            IF d.err THEN DecodeError
            ELSE DecodePolicyMembers(members, i + 1,
                                     [p EXCEPT !.DefaultAction = d.val],
                                     backing)
  ELSE DecodePolicyMembers(members, i + 1, p, backing)

\* json.Unmarshal([]byte(text), &p) with p the zero NetworkPolicy: the text
\* is checked as a whole, then decoded; a value of the wrong type is an
\* error
Unmarshal(text) ==
  LET toks == Lex(text, 1)
      r == ParseValue(toks, 1)
  IN IF \E i \in 1..Len(toks) : toks[i].k = "bad" THEN DecodeError
     ELSE IF ~r.ok \/ r.next # Len(toks) + 1 THEN DecodeError
     ELSE IF r.val.t = "null" THEN Decoded(ZeroPolicy)
     ELSE IF r.val.t = "obj"
          THEN DecodePolicyMembers(r.val.items, 1, ZeroPolicy, <<>>)
     ELSE DecodeError

\* a mutant of ParsePolicy: the text is not trimmed
ParsePolicy_NoTrim(raw) ==
  IF raw = <<>> \/ raw = NullText \/ raw = <<"{", "}">>
  THEN [policy |-> DefaultDenyPolicy, err |-> FALSE]
  ELSE LET d == Unmarshal(raw) IN
       IF d.err THEN [policy |-> NilPolicy, err |-> TRUE]
       ELSE [policy |-> ensureDefaults(d.val), err |-> FALSE]

\* ParsePolicy: the policy and whether an error is returned
ParsePolicy(raw) ==
  LET trimmed == TrimSpace(raw) IN
  IF trimmed = <<>> \/ trimmed = NullText \/ trimmed = <<"{", "}">>
  THEN [policy |-> DefaultDenyPolicy, err |-> FALSE]
  ELSE LET d == Unmarshal(trimmed) IN
       IF d.err THEN [policy |-> NilPolicy, err |-> TRUE]
       ELSE [policy |-> ensureDefaults(d.val), err |-> FALSE]

----------------------------------------------------------------------------
(* The policy texts handed to ParsePolicy and the calls made on the result. *)

\* the JSON text of a string, of a member, of an object and of an array
Quoted(s) == <<Quote>> \o s \o <<Quote>>
Member(key, text) == Quoted(key) \o <<":">> \o text
RECURSIVE Joined(_)
Joined(texts) ==
  IF texts = <<>> THEN <<>>
  ELSE IF Len(texts) = 1 THEN texts[1]
       ELSE texts[1] \o <<",">> \o Joined(Tail(texts))
Object(members) == <<"{">> \o Joined(members) \o <<"}">>
Array(items) == <<"[">> \o Joined(items) \o <<"]">>

\* the action strings a policy text carries: none of them is checked by
\* ParsePolicy
ActionTexts == {<<>>, ActionAllow, ActionDeny, <<"b", "l", "o", "c", "k">>, <<"A", "l", "l", "o", "w">>}
\* the targets of the rules
RuleTargets == {<<"x">>, <<"*", ".", "x">>}

\* a field is left out (no member) or given (one member)
ActionForms ==
  {<<>>} \cup {<<Member(KeyAction, Quoted(a))>> : a \in ActionTexts}
TargetForms ==
  {<<>>} \cup {<<Member(KeyTarget, Quoted(t))>> : t \in RuleTargets}
RuleTexts == {Object(af \o tf) : af \in ActionForms, tf \in TargetForms}

RuleText(action, target) ==
  Object(<<Member(KeyAction, Quoted(action)),
           Member(KeyTarget, Quoted(target))>>)

EgressForms ==
  {<<>>, <<Member(KeyEgress, NullText)>>, <<Member(KeyEgress, Array(<<>>))>>}
    \cup {<<Member(KeyEgress, Array(<<r>>))>> : r \in RuleTexts}
    \cup {<<Member(KeyEgress,
                   Array(<<RuleText(ActionDeny, <<"a", ".", "x">>),
                           RuleText(ActionAllow, <<"*", ".", "x">>)>>))>>,
          <<Member(KeyEgress,
                   Array(<<RuleText(ActionAllow, <<"*", ".", "x">>),
                           RuleText(ActionDeny, <<"a", ".", "x">>)>>))>>}

DefaultActionForms ==
  {<<>>, <<Member(KeyDefaultAction, NullText)>>,
   <<Member(KeyDefaultAction, Array(<<>>))>>,
   <<Member(<<"D", "E", "F", "A", "U", "L", "T", "A", "C", "T", "I", "O", "N">>, Quoted(ActionAllow))>>}
    \cup {<<Member(KeyDefaultAction, Quoted(a))>> : a \in ActionTexts}

PolicyTexts ==
  {Object(eg \o da) : eg \in EgressForms, da \in DefaultActionForms}

\* blanks before and after a text
Pads == {<<>>, <<" ">>, <<"\n">>, <<"\t", " ">>, <<"\f">>, <<"U+00A0">>}
\* the texts ParsePolicy answers with the default policy, blanks around them
DefaultTexts == {<<>>, NullText, <<"{", "}">>}
\* texts that are not a policy object
OtherTexts ==
  {<<"n", "u", "l">>, <<"{">>, <<"[", "]">>, Quoted(ActionAllow), <<"{", " ", "}">>,
   NullText \o NullText, <<"{", "}", "}">>}

\* texts with numbers, true and false, escapes, raw control characters,
\* repeated keys, and keys that equal a field name only after folding
ScannerTexts ==
  {<<"{", Quote, "x", Quote, ":", "1", "}">>,
   <<"{", Quote, "x", Quote, ":", "t", "r", "u", "e", "}">>,
   <<"{", Quote, "d", "e", "f", "a", "u", "l", "t", "A", "c", "t", "i",
     "o", "n", Quote, ":", Quote, "a", "l", "l", "o", "w", Quote, ",", Quote,
     "t", "t", "l", Quote, ":", "0", "}">>,
   <<"{", Quote, "x", Quote, ":", "-", "1", ".", "5", "e", "+", "3", "}">>,
   <<"{", Quote, "x", Quote, ":", "[", "1", ",", "{", Quote, "y", Quote,
     ":", "f", "a", "l", "s", "e", "}", "]", "}">>,
   <<"{", Quote, "x", Quote, ":", "0", "1", "}">>,
   <<"{", Quote, "x", Quote, ":", "1", ".", "}">>,
   <<"{", Quote, "x", Quote, ":", "-", "}">>,
   <<"{", Quote, "d", "e", "f", "a", "u", "l", "t", "A", "c", "t", "i",
     "o", "n", Quote, ":", "1", "}">>,
   <<"{", Quote, "d", "e", "f", "a", "u", "l", "t", "A", "c", "t", "i",
     "o", "n", Quote, ":", "f", "a", "l", "s", "e", "}">>,
   <<"t", "r", "u", "e">>,
   <<"1">>,
   <<"{", Quote, "d", "e", "f", "a", "u", "l", "t", "A", "c", "t", "i",
     "o", "n", Quote, ":", Quote, "a", Backslash, Quote, "b", Quote, "}">>,
   <<"{", Quote, "d", "e", "f", "a", "u", "l", "t", "A", "c", "t", "i",
     "o", "n", Quote, ":", Quote, "a", Backslash, "/", "b", Backslash,
     Backslash, Quote, "}">>,
   <<"{", Quote, "d", "e", "f", "a", "u", "l", "t", "A", "c", "t", "i",
     "o", "n", Quote, ":", Quote, "a", "\n", "b", Quote, "}">>,
   <<"{", Quote, "d", "e", "f", "a", "u", "l", "t", "A", "c", "t", "i",
     "o", "n", Quote, ":", Quote, "a", "\t", "b", Quote, "}">>,
   <<"{", Quote, "x", Quote, ":", Quote, Backslash, "q", Quote, "}">>,
   <<"{", Quote, "d", "e", "f", "a", "u", "l", "t", "A", "c", "t", "i",
     "o", "n", Quote, ":", Quote, Backslash, "u", "0", "0", "6", "1", "l",
     "l", "o", "w", Quote, "}">>,
   <<"{", Quote, "d", "e", "f", "a", "u", "l", "t", "A", "c", "t", "i",
     "o", "n", Quote, ":", Quote, Backslash, "u", "d", "8", "3", "d",
     Backslash, "u", "d", "e", "0", "0", Backslash, "u", "0", "0", "E", "9",
     Quote, "}">>,
   <<"{", Quote, "d", "e", "f", "a", "u", "l", "t", "A", "c", "t", "i",
     "o", "n", Quote, ":", Quote, Backslash, "u", "d", "8", "3", "d", "x",
     Quote, "}">>,
   <<"{", Quote, "d", "e", "f", "a", "u", "l", "t", "A", "c", "t", "i",
     "o", "n", Quote, ":", Quote, Backslash, "u", "0", "0", "z", "z", Quote,
     "}">>,
   <<"{", Quote, "e", "g", "r", "e", "s", "s", Quote, ":", "[", "{", Quote,
     "a", "c", "t", "i", "o", "n", Quote, ":", Quote, "a", "l", "l", "o",
     "w", Quote, ",", Quote, "t", "a", "r", "g", "e", "t", Quote, ":", Quote,
     "x", Quote, "}", "]", ",", Quote, "e", "g", "r", "e", "s", "s", Quote,
     ":", "[", "{", Quote, "t", "a", "r", "g", "e", "t", Quote, ":", Quote,
     "y", Quote, "}", "]", "}">>,
   <<"{", Quote, "e", "g", "r", "e", "s", "s", Quote, ":", "[", "{", Quote,
     "a", "c", "t", "i", "o", "n", Quote, ":", Quote, "a", "l", "l", "o",
     "w", Quote, ",", Quote, "t", "a", "r", "g", "e", "t", Quote, ":", Quote,
     "x", Quote, "}", ",", "{", Quote, "a", "c", "t", "i", "o", "n", Quote,
     ":", Quote, "d", "e", "n", "y", Quote, ",", Quote, "t", "a", "r", "g",
     "e", "t", Quote, ":", Quote, "a", ".", "x", Quote, "}", "]", ",", Quote,
     "e", "g", "r", "e", "s", "s", Quote, ":", "[", "{", Quote, "t", "a",
     "r", "g", "e", "t", Quote, ":", Quote, "y", Quote, "}", "]", ",", Quote,
     "e", "g", "r", "e", "s", "s", Quote, ":", "[", "n", "u", "l", "l", ",",
     "{", Quote, "t", "a", "r", "g", "e", "t", Quote, ":", Quote, "x", Quote,
     "}", "]", "}">>,
   <<"{", Quote, "e", "g", "r", "e", "s", "s", Quote, ":", "[", "{", Quote,
     "a", "c", "t", "i", "o", "n", Quote, ":", Quote, "a", "l", "l", "o",
     "w", Quote, ",", Quote, "t", "a", "r", "g", "e", "t", Quote, ":", Quote,
     "x", Quote, "}", "]", ",", Quote, "e", "g", "r", "e", "s", "s", Quote,
     ":", "[", "]", ",", Quote, "e", "g", "r", "e", "s", "s", Quote, ":",
     "[", "{", Quote, "t", "a", "r", "g", "e", "t", Quote, ":", Quote, "x",
     Quote, "}", "]", "}">>,
   <<"{", Quote, "e", "g", "r", "e", "s", "s", Quote, ":", "[", "{", Quote,
     "a", "c", "t", "i", "o", "n", Quote, ":", Quote, "a", "l", "l", "o",
     "w", Quote, ",", Quote, "t", "a", "r", "g", "e", "t", Quote, ":", Quote,
     "x", Quote, "}", "]", ",", Quote, "e", "g", "r", "e", "s", "s", Quote,
     ":", "n", "u", "l", "l", ",", Quote, "e", "g", "r", "e", "s", "s",
     Quote, ":", "[", "{", Quote, "t", "a", "r", "g", "e", "t", Quote, ":",
     Quote, "x", Quote, "}", "]", "}">>,
   <<"{", Quote, "e", "g", "r", "e", "s", "s", Quote, ":", "[", "1", "]",
     "}">>,
   <<"{", Quote, "e", "g", "r", "e", "s", "s", Quote, ":", "[", "n", "u",
     "l", "l", "]", "}">>,
   <<"{", Quote, "e", "g", "r", "e", Backslash, "u", "0", "1", "7", "f", "s",
     Quote, ":", "1", "}">>,
   <<"{", Quote, "e", "g", "r", "e", "U+017F", "U+017F", Quote, ":", "1",
     "}">>,
   <<"{", Quote, "e", "g", "r", "e", "U+017F", "s", Quote, ":", "[", "{",
     Quote, "t", "a", "r", "g", "e", "t", Quote, ":", Quote, "x", Quote, "}",
     "]", "}">>,
   <<"{", Quote, "e", "g", "r", "e", Backslash, "u", "0", "1", "7", "F", "s",
     Quote, ":", "[", "{", Quote, "t", "a", "r", "g", "e", "t", Quote, ":",
     Quote, "x", Quote, "}", "]", "}">>,
   <<"{", Quote, "E", "G", "R", "E", "U+017F", "S", Quote, ":", "[", "{",
     Quote, "A", "c", "t", "i", "o", "n", Quote, ":", Quote, "a", "l", "l",
     "o", "w", Quote, ",", Quote, "T", "A", "R", "G", "E", "T", Quote, ":",
     Quote, "x", Quote, "}", "]", "}">>,
   <<"{", Quote, "e", "g", "r", "e", "s", "s", Quote, ":", "[", "{", Quote,
     "t", "a", "r", "g", "e", "t", Quote, ":", Quote, "x", Quote, ",", Quote,
     "U+212A", Quote, ":", Quote, "y", Quote, "}", "]", ",", Quote, "U+212A",
     Quote, ":", "1", "}">>,
   <<"{", Quote, "e", "g", "r", "e", "U+00DF", "s", Quote, ":", "1", "}">>}

RawInputs ==
  {l \o core \o r : l \in Pads, r \in Pads, core \in DefaultTexts}
    \cup PolicyTexts
    \cup ScannerTexts
    \cup {<<" ">> \o t \o <<"\n">> : t \in PolicyTexts}
    \cup OtherTexts

MaxDomainLen == 3
MaxTargetLen == 3
DomainChars == {"a", "x", "X", "."}
TargetChars == {"*", ".", "x", "X", " "}
DomainStrings == UNION {[1..n -> DomainChars] : n \in 0..MaxDomainLen}
TargetStrings == UNION {[1..n -> TargetChars] : n \in 0..MaxTargetLen}

\* ParsePolicy is called on a text
PolicyParse ==
  /\ eval = NoEval
  /\ \E raw \in RawInputs :
       eval' = [fn |-> "ParsePolicy", raw |-> raw, res |-> ParsePolicy(raw)]
  /\ UNCHANGED <<ready, create, tailVars, regVars, seekVars, lockVars, storeVars,
                 runVars, isoVars>>

\* Evaluate is called on what ParsePolicy returned, nil after an error
PolicyEvaluate ==
  /\ eval.fn = "ParsePolicy"
  /\ \E domain \in DomainStrings :
       eval' = [fn |-> "Evaluate", raw |-> eval.raw, res |-> eval.res,
                domain |-> domain,
                action |-> Evaluate(eval.res.policy, domain)]
  /\ UNCHANGED <<ready, create, tailVars, regVars, seekVars, lockVars, storeVars,
                 runVars, isoVars>>

\* matchesDomain is called on a rule with some target
PolicyMatch ==
  /\ eval = NoEval
  /\ \E target \in TargetStrings, domain \in DomainStrings :
       eval' = [fn |-> "matchesDomain", target |-> target, domain |-> domain,
                matched |-> matchesDomain([Action |-> ActionAllow,
                                           Target |-> target], domain)]
  /\ UNCHANGED <<ready, create, tailVars, regVars, seekVars, lockVars, storeVars,
                 runVars, isoVars>>

\* most rules in the egress list of a policy built directly
MaxRules == 2
\* the actions and targets of those rules
DecideActions == {<<>>, ActionAllow, ActionDeny}
DecideTargets == {<<"x">>, <<"*", ".", "x">>, <<"a", ".", "X">>}
RuleChoices == [Action : DecideActions, Target : DecideTargets]
\* the policies of one rule whose target is the final small sigma (U+03C2)
SigmaPolicies ==
  {[Egress |-> <<[Action |-> a, Target |-> <<"U+03C2">>]>>,
    DefaultAction |-> d] : a \in DecideActions, d \in DecideActions}
Policies ==
  [Egress : UNION {[1..n -> RuleChoices] : n \in 0..MaxRules},
   DefaultAction : DecideActions] \cup SigmaPolicies

\* the domains asked of those policies: names the targets match or do not
\* match, the empty name, the final small sigma, and all of them with one
\* more trailing dot
DecideNames ==
  {<<>>, <<"x">>, <<"a">>, <<"a", ".", "x">>, <<"A", ".", "X">>,
   <<"x", ".", "x">>, <<"a", ".", "a", ".", "x">>, <<"U+03C2">>}
DecideDomains == DecideNames \cup {d \o <<".">> : d \in DecideNames}

\* Evaluate is called on a policy with any rules in any order
PolicyDecide ==
  /\ eval = NoEval
  /\ \E p \in Policies, domain \in DecideDomains :
       eval' = [fn |-> "EvaluatePolicy", policy |-> p, domain |-> domain,
                action |-> Evaluate(p, domain)]
  /\ UNCHANGED <<ready, create, tailVars, regVars, seekVars, lockVars, storeVars,
                 runVars, isoVars>>

SpecPolicyInit == TailIdle /\ RegInit /\ SeekIdle /\ EngIdle
SpecPolicyNext == PolicyParse \/ PolicyEvaluate \/ PolicyMatch \/ PolicyDecide
SpecPolicy == SpecPolicyInit /\ [][SpecPolicyNext]_vars

----------------------------------------------------------------------------
(* Sandbox.checkReady (Sandbox.kt): the polling loop of the health check.  *)
(* The clock is System.currentTimeMillis() in ticks.                       *)

\* longest timeout, longest polling interval, longest attempt, in ticks
MaxTimeout == 2
MaxInterval == 1
MaxAttemptTime == 1
\* most attempts of one call that are followed
MaxAttempts == 3
\* Long.MAX_VALUE of the millisecond arithmetic, on a short word
MaxLong == 31

\* a + b on Long: the sum wraps
PlusLong(a, b) ==
  ((a + b + MaxLong + 1) % (2 * (MaxLong + 1))) - (MaxLong + 1)
\* Duration.toMillis() throws ArithmeticException when the milliseconds
\* do not fit a Long
ToMillisThrows(d) == d > MaxLong \/ d < 0 - (MaxLong + 1)
\* the timeouts a call is given, as their milliseconds: a negative one,
\* short ones, the longest and the most negative that fit a Long, and one
\* beyond each of them
Timeouts ==
  ((0 - 1)..MaxTimeout) \cup {MaxLong, MaxLong + 1}
    \cup {0 - (MaxLong + 1), 0 - (MaxLong + 2)}
\* the polling intervals a call is given
Intervals ==
  ((0 - 1)..MaxInterval) \cup {MaxLong + 1, 0 - (MaxLong + 2)}

\* how a call of isHealthy() ends when it ends: it returns true or false,
\* or it throws an Exception, or it throws a Throwable that is no Exception
\* (an Error)
AttemptResults == {"true", "false", "Exception", "Error"}

\* checkReady is called: deadline = currentTimeMillis() + timeout.toMillis()
\* (the clock reads 1 at the call)
ReadyCall ==
  /\ ready = NoReady
  /\ \E timeout \in Timeouts, interval \in Intervals :
       ready' = [pc |-> IF ToMillisThrows(timeout) THEN "thrown" ELSE "loop",
                 clock |-> 1, timeout |-> timeout,
                 deadline |-> IF ToMillisThrows(timeout) THEN 0
                              ELSE PlusLong(1, timeout),
                 interval |-> interval, attempt |-> 0, spent |-> 0,
                 lastException |-> None, results |-> <<>>,
                 thrown |-> IF ToMillisThrows(timeout)
                            THEN "ArithmeticException" ELSE "none",
                 message |-> "none"]
  /\ UNCHANGED <<eval, create, tailVars, regVars, seekVars, lockVars, storeVars,
                 runVars, isoVars>>

\* while (System.currentTimeMillis() < deadline): the next attempt starts,
\* or the loop is left and SandboxReadyTimeoutException is thrown
ReadyTest ==
  /\ ready.pc = "loop"
  /\ IF ready.clock < ready.deadline
     THEN /\ ready.attempt < MaxAttempts
          /\ ready' = [ready EXCEPT !.pc = "attempt", !.attempt = @ + 1,
                                    !.spent = 0]
     ELSE ready' = [ready EXCEPT
                      !.pc = "thrown",
                      !.thrown = "SandboxReadyTimeoutException",
                      !.message = IF ready.lastException # None
                                  THEN "Last error"
                                  ELSE "Check returned false continuously"]
  /\ UNCHANGED <<eval, create, tailVars, regVars, seekVars, lockVars, storeVars,
                 runVars, isoVars>>

\* time passes while isHealthy() runs: the deadline is not looked at
ReadyTick ==
  /\ ready.pc = "attempt"
  /\ ready.spent < MaxAttemptTime
  /\ ready' = [ready EXCEPT !.clock = @ + 1, !.spent = @ + 1]
  /\ UNCHANGED <<eval, create, tailVars, regVars, seekVars, lockVars, storeVars,
                 runVars, isoVars>>

\* isHealthy() does not come back: customHealthCheck is the caller's code
\* and checkReady puts no limit on it
ReadyHang ==
  /\ ready.pc = "attempt"
  /\ ready' = [ready EXCEPT !.pc = "hung"]
  /\ UNCHANGED <<eval, create, tailVars, regVars, seekVars, lockVars, storeVars,
                 runVars, isoVars>>

\* a mutant of the attempt: an Exception of isHealthy() is not caught
ReadyAttempt_NoCatch ==
  /\ ready.pc = "attempt"
  /\ \E result \in AttemptResults :
       ready' = [ready EXCEPT
                   !.results = Append(@, result),
                   !.pc = CASE result = "true" -> "returned"
                            [] result = "false" -> "sleep"
                            [] OTHER -> "thrown",
                   !.thrown = IF result \in {"Exception", "Error"}
                              THEN result ELSE @]
  /\ UNCHANGED <<eval, create, tailVars, regVars, seekVars, lockVars, storeVars,
                 runVars, isoVars>>

\* the end of one attempt: try { isHealthy() } catch (e: Exception)
\* { false }, then return on true; a Throwable that is no Exception is not
\* caught
ReadyAttempt ==
  /\ ready.pc = "attempt"
  /\ \E result \in AttemptResults :
       ready' = [ready EXCEPT
                   !.results = Append(@, result),
                   !.lastException = IF result = "Exception"
                                     THEN Some(ready.attempt) ELSE @,
                   !.pc = CASE result = "true" -> "returned"
                            [] result = "Error" -> "thrown"
                            [] OTHER -> "sleep",
                   !.thrown = IF result = "Error" THEN "Error" ELSE @]
  /\ UNCHANGED <<eval, create, tailVars, regVars, seekVars, lockVars, storeVars,
                 runVars, isoVars>>

\* Thread.sleep(pollingInterval.toMillis()): toMillis() throws for an
\* interval that does not fit, sleep throws for a negative interval and
\* when the thread is interrupted
ReadySleep ==
  /\ ready.pc = "sleep"
  /\ IF ToMillisThrows(ready.interval)
     THEN ready' = [ready EXCEPT !.pc = "thrown",
                                 !.thrown = "ArithmeticException"]
     ELSE IF ready.interval < 0
     THEN ready' = [ready EXCEPT !.pc = "thrown",
                                 !.thrown = "IllegalArgumentException"]
     ELSE \E interrupted \in BOOLEAN :
            ready' = IF interrupted
                     THEN [ready EXCEPT !.pc = "thrown",
                                        !.thrown = "InterruptedException"]
                     ELSE [ready EXCEPT !.pc = "loop",
                                        !.clock = @ + ready.interval]
  /\ UNCHANGED <<eval, create, tailVars, regVars, seekVars, lockVars, storeVars,
                 runVars, isoVars>>

SpecReadyInit == TailIdle /\ RegInit /\ SeekIdle /\ EngIdle
SpecReadyNext ==
  ReadyCall \/ ReadyTest \/ ReadyTick \/ ReadyHang \/ ReadyAttempt
    \/ ReadySleep
\* the thread of the call runs: the loop's test is made and a sleep ends;
\* nothing makes an attempt end
SpecReady ==
  /\ SpecReadyInit
  /\ [][SpecReadyNext]_vars
  /\ WF_vars(ReadyTest)
  /\ WF_vars(ReadySleep)

----------------------------------------------------------------------------
(* Sandbox.create (Sandbox.kt): the remote creation, the initialization    *)
(* steps after it and the cleanup of the catch block.                      *)

\* what a failing call throws: a SandboxException, another Exception, or a
\* Throwable that is no Exception (an Error)
Throwables == {"SandboxException", "Exception", "Error"}
\* what httpClientProvider.close() throws when it throws
CloseThrowables == {"Exception", "Error"}
\* the steps of the try block, in order
CreateSteps ==
  <<"createSandboxes", "createSandbox", "getSandboxEndpoint", "services",
    "checkReady">>
\* response.id of the created sandbox
SandboxId == "sb"

\* what checkReady throws, as Sandbox.create's catch block sees it
ReadyThrowable ==
  CASE ready.thrown = "SandboxReadyTimeoutException" -> "SandboxException"
    [] ready.thrown = "Error" -> "Error"
    [] OTHER -> "Exception"

\* a step of the try block throws t: catch (e: Exception) takes an
\* Exception, a Throwable that is no Exception leaves create at once
Throw(c, step, t) ==
  IF t = "Error"
  THEN [c EXCEPT !.pc = "thrown", !.failedAt = step, !.failure = Some(t),
                 !.thrown = [kind |-> "Error", cause |-> None]]
  ELSE [c EXCEPT !.pc = "catch", !.failedAt = step, !.failure = Some(t)]

\* Sandbox.create is called: the provider and the factory are constructed
CreateCall ==
  /\ create = NoCreate
  /\ create' = [pc |-> "createSandboxes", sandboxId |-> None,
                sandboxService |-> FALSE, remote |-> {}, kills |-> <<>>,
                closed |-> 0, closeFailure |-> None,
                failedAt |-> "none", failure |-> None, suppressed |-> None,
                thrown |-> [kind |-> "none", cause |-> None]]
  /\ UNCHANGED <<eval, ready, tailVars, regVars, seekVars, lockVars,
                 storeVars, runVars, isoVars>>

\* one of the steps before checkReady returns or throws:
\* factory.createSandboxes(), sandboxService.createSandbox (sandboxId =
\* response.id), getSandboxEndpoint, the construction of the services
CreateStep ==
  /\ create # NoCreate
  /\ create.pc \in {"createSandboxes", "createSandbox", "getSandboxEndpoint",
                    "services"}
  /\ \/ create' =
          CASE create.pc = "createSandboxes" ->
                 [create EXCEPT !.pc = "createSandbox",
                                !.sandboxService = TRUE]
            [] create.pc = "createSandbox" ->
                 [create EXCEPT !.pc = "getSandboxEndpoint",
                                !.sandboxId = Some(SandboxId),
                                !.remote = {SandboxId}]
            [] create.pc = "getSandboxEndpoint" ->
                 [create EXCEPT !.pc = "services"]
            [] OTHER -> [create EXCEPT !.pc = "checkReady"]
     \/ \E t \in Throwables : create' = Throw(create, create.pc, t)
  /\ UNCHANGED <<eval, ready, tailVars, regVars, seekVars, lockVars,
                 storeVars, runVars, isoVars>>

\* sandbox.checkReady(readyTimeout, healthCheckPollingInterval) is running
CreateCheckReady ==
  /\ create # NoCreate
  /\ create.pc = "checkReady"
  /\ ReadyCall \/ ReadyTest \/ ReadyTick \/ ReadyHang \/ ReadyAttempt
       \/ ReadySleep

\* checkReady has returned: create returns the sandbox; or it has thrown
CreateReadyEnds ==
  /\ create # NoCreate
  /\ create.pc = "checkReady"
  /\ ready # NoReady
  /\ ready.pc \in {"returned", "thrown"}
  /\ create' = IF ready.pc = "returned"
               THEN [create EXCEPT !.pc = "returned"]
               ELSE Throw(create, "checkReady", ReadyThrowable)
  /\ UNCHANGED <<eval, ready, tailVars, regVars, seekVars, lockVars,
                 storeVars, runVars, isoVars>>

\* a mutant of the cleanup: the sandbox is killed whether or not it exists
CreateCleanup_AlwaysKill ==
  /\ create # NoCreate
  /\ create.pc = "catch"
  /\ \/ create' = [create EXCEPT !.pc = "close",
                                 !.kills = Append(@, SandboxId),
                                 !.remote = {}]
     \/ create' = [create EXCEPT !.pc = "close",
                                 !.kills = Append(@, SandboxId),
                                 !.suppressed = Some("Exception")]
     \/ create' = [create EXCEPT !.pc = "thrown",
                                 !.kills = Append(@, SandboxId),
                                 !.thrown = [kind |-> "Error",
                                             cause |-> None]]
  /\ UNCHANGED <<eval, ready, tailVars, regVars, seekVars, lockVars,
                 storeVars, runVars, isoVars>>

\* the catch block's cleanup: if (sandboxId != null && sandboxService !=
\* null) killSandbox(sandboxId); an Exception of the kill is suppressed, a
\* Throwable that is no Exception leaves create
CreateCleanup ==
  /\ create # NoCreate
  /\ create.pc = "catch"
  /\ IF create.sandboxId # None /\ create.sandboxService
     THEN \/ create' = [create EXCEPT !.pc = "close",
                                      !.kills = Append(@, create.sandboxId[1]),
                                      !.remote = {}]
          \/ create' = [create EXCEPT !.pc = "close",
                                      !.kills = Append(@, create.sandboxId[1]),
                                      !.suppressed = Some("Exception")]
          \/ create' = [create EXCEPT !.pc = "thrown",
                                      !.kills = Append(@, create.sandboxId[1]),
                                      !.thrown = [kind |-> "Error",
                                                  cause |-> None]]
     ELSE create' = [create EXCEPT !.pc = "close"]
  /\ UNCHANGED <<eval, ready, tailVars, regVars, seekVars, lockVars,
                 storeVars, runVars, isoVars>>

\* httpClientProvider.close(), then the rethrow: a SandboxException as it
\* is, anything else wrapped in SandboxInternalException.  The call of
\* close() stands in the catch block outside any try: what it throws leaves
\* create in place of the original failure.
CreateRethrow ==
  /\ create # NoCreate
  /\ create.pc = "close"
  /\ \/ create' = [create EXCEPT
                     !.pc = "thrown",
                     !.closed = @ + 1,
                     !.thrown = IF create.failure = Some("SandboxException")
                                THEN [kind |-> "SandboxException",
                                      cause |-> None]
                                ELSE [kind |-> "SandboxInternalException",
                                      cause |-> create.failure]]
     \/ \E t \in CloseThrowables :
          create' = [create EXCEPT
                       !.pc = "thrown",
                       !.closed = @ + 1,
                       !.closeFailure = Some(t),
                       !.thrown = [kind |-> t, cause |-> None]]
  /\ UNCHANGED <<eval, ready, tailVars, regVars, seekVars, lockVars,
                 storeVars, runVars, isoVars>>

SpecCreateInit == TailIdle /\ RegInit /\ SeekIdle /\ EngIdle
SpecCreateNext ==
  \/ CreateCall
  \/ CreateStep
  \/ CreateCheckReady
  \/ CreateReadyEnds
  \/ CreateCleanup
  \/ CreateRethrow
SpecCreate == SpecCreateInit /\ [][SpecCreateNext]_vars

----------------------------------------------------------------------------
(* A registered session under every operation that follows its creation:   *)
(* writes, tailer polls, exit, completion update, Interrupt, the status and *)
(* seek-output endpoints, and a second session whose spawn fails.           *)

SpecFrameInit == TailIdle /\ SeekInit /\ EngIdle
\* the step leaves a newline at the end of the stdout file of session s
EndsLine(s) ==
  fs'[stdoutFileName(s)][Len(fs'[stdoutFileName(s)])] = LF

\* the session's process writes newlines: every record it writes is whole
SpecFrameNext ==
  \/ IsoWrites(BgSession) /\ EndsLine(BgSession)
  \/ TailPoll(BgSession)
  \/ TailPollRead(BgSession)
  \/ ProcExits(BgSession)
  \/ ProcKilled(BgSession)
  \/ MonitorFinish(BgSession)
  \/ RunCommand(S2)
  \/ RunSpawn(S2) /\ proc'[S2].st = "nospawn"
  \/ \E id \in SessionIDs : Interrupt(id)
  \/ \E id \in SessionIDs : GetStatus(id)
  \/ GetStatusAnswer
  \/ SeekRequest({BgSession}, {<<"0">>})
  \/ SeekAnswer
SpecFrame == SpecFrameInit /\ [][SpecFrameNext]_vars

----------------------------------------------------------------------------
(* The endpoints at the HTTP boundary: the run, status and seek-output      *)
(* requests of clients that name any id and send any cursor value.          *)

\* the run, status and seek-output endpoints asked about a session and
\* about an id never registered
SpecBoundaryInit == SpecRunInit
SpecBoundaryNext ==
  \/ RunRequest
  \/ \E s \in SessionIDs : RunSpawn(s)
  \/ RunReturn
  \/ \E id \in {BgSession, UnknownID} : GetStatus(id)
  \/ GetStatusAnswer
  \/ SeekRequest({BgSession, UnknownID}, {<<"0">>})
  \/ SeekAnswer
SpecBoundary == SpecBoundaryInit /\ [][SpecBoundaryNext]_vars

\* the largest magnitude a client writes as a cursor
MaxSent == 4
\* the integers a client writes as a cursor
CursorValues == (0 - MaxSent)..MaxSent
\* the ways to write the integer v in decimal: as strconv.FormatInt does,
\* with a plus sign, with a leading zero
Spellings(v) ==
  {FormatInt(v)}
    \cup (IF v >= 0 THEN {<<"+">> \o FormatUint(v)} ELSE {})
    \cup {(IF v < 0 THEN <<"-">> ELSE <<>>) \o <<"0">> \o
          FormatUint(IF v < 0 THEN 0 - v ELSE v)}
\* values that are no decimal integer
NonNumeric ==
  {<<"x">>, <<"1", "x">>, <<"-">>, <<"+">>, <<"1", ".", "0">>, <<" ", "1">>,
   <<"0", "x", "1">>, <<"1", "_", "0">>, <<"-", "-", "1">>}
\* decimal integers beyond the signed 64 bits: 1<<63, -(1<<63) - 1, 10^19
OutOfRange64 ==
  {Cutoff64,
   <<"-">> \o SubSeq(Cutoff64, 1, Len(Cutoff64) - 1) \o <<"9">>,
   <<"1">> \o [i \in 1..Len(Cutoff64) |-> "0"]}
\* the cursor query values sent: <<>> is the parameter missing or empty
CursorQueries ==
  {<<>>} \cup NonNumeric \cup OutOfRange64
    \cup UNION {Spellings(v) : v \in CursorValues}

\* a background session that writes, and clients sending any cursor value
SpecCursorInit == TailIdle /\ SeekInit /\ EngIdle
SpecCursorNext ==
  \/ IsoWrites(BgSession)
  \/ SeekRequest({BgSession, UnknownID}, CursorQueries)
  \/ SeekAnswer
SpecCursor == SpecCursorInit /\ [][SpecCursorNext]_vars

----------------------------------------------------------------------------
(* C7: the single reader that always sends the cursor of its previous       *)
(* answer holds, concatenated, exactly a prefix of the output (no gap, no   *)
(* byte twice), its next cursor is the number of bytes it holds, and once   *)
(* a call made after the process's exit has returned nothing it holds the   *)
(* whole file.                                                              *)
C7_FollowerReconstructsOutput ==
  LET f == fs[BgStdout] IN
  /\ Len(acc) <= Len(f)
  /\ acc = SubSeq(f, 1, Len(acc))
  /\ query = FormatInt(Len(acc))
  /\ (/\ lastSeek.follow
      /\ lastSeek.exited
      /\ lastSeek.resp[1].body = Some(<<>>)) => acc = f

\* after the exit, a call from a cursor inside the file completed the output
C7_Witness ==
  /\ lastSeek.follow
  /\ lastSeek.exited
  /\ lastSeek.cursor > 0
  /\ lastSeek.cursor < lastSeek.len
  /\ acc = fs[BgStdout]

(* C8: a call with a cursor at or beyond the end of the output answers 200  *)
(* with an empty body and the cursor it was given, and so does the call     *)
(* repeated with the cursor returned, in every state of the file (the      *)
(* registry and the file of a state with a request in flight are those of   *)
(* a state without one, where the second part is evaluated).                *)
C8_CursorAtOrBeyondEnd ==
  /\ (lastSeek.resp # None /\ lastSeek.known /\ lastSeek.cursor >= lastSeek.len)
       => /\ lastSeek.resp[1].status = StatusOK
          /\ lastSeek.resp[1].body = Some(<<>>)
          /\ lastSeek.resp[1].header = Some(FormatInt(lastSeek.cursor))
  /\ qry = NoQuery =>
     \A c \in Len(fs[BgStdout])..MaxCursor :
     \A negative \in OutcomesOf(FormatInt(c)) :
       LET r == CtlGetBackgroundCommandOutput(commandClientMap, fs, BgSession,
                                              FormatInt(c), negative)
       IN /\ r.status = StatusOK
          /\ r.body = Some(<<>>)
          /\ r.header = Some(FormatInt(c))
          /\ CtlGetBackgroundCommandOutput(commandClientMap, fs, BgSession,
                                           r.header[1], negative) = r

\* a call with a two-digit cursor beyond the end of a non-empty output
C8_Witness ==
  /\ lastSeek.known
  /\ lastSeek.len > 0
  /\ lastSeek.cursor > lastSeek.len
  /\ lastSeek.cursor >= 10
  /\ lastSeek.resp[1].body = Some(<<>>)

\* a status whose optional fields agree with its running flag
StatusConsistent(st) ==
  /\ st.Running => st.ExitCode = None /\ st.FinishedAt = None
  /\ ~st.Running => st.FinishedAt # None

(* C9: for every registered session the status endpoint answers with        *)
(* exitCode and finishedAt absent while running is true, and with           *)
(* finishedAt present once running is false, exitCode being present         *)
(* exactly when the process reported one; every answer given was so.        *)
C9_StatusAgreesWithRunning ==
  /\ \A id \in DOMAIN commandClientMap :
       LET r == CtlGetCommandStatus(commandClientMap, id) IN
       /\ r.status = StatusOK
       /\ StatusConsistent(r.data[1])
       /\ ~r.data[1].Running => r.data[1].ExitCode = proc[id].code
  /\ (statusResp.resp # None /\ statusResp.known)
       => /\ statusResp.resp[1].status = StatusOK
          /\ StatusConsistent(statusResp.resp[1].data[1])

\* a status was given for a session whose process died without an exit
\* code, while the other session was still running
C9_Witness ==
  /\ statusResp.known
  /\ ~statusResp.resp[1].data[1].Running
  /\ statusResp.resp[1].data[1].ExitCode = None
  /\ proc[statusResp.id].st = "reaped"
  /\ \E id \in DOMAIN commandClientMap : commandClientMap[id].running

(* C10: for an id that is not registered the lookup yields nil and the      *)
(* status endpoint answers with the not-found error and no status record,   *)
(* in every registry state; a status call leaves the registry unchanged.    *)
C10_UnknownIdNotFound ==
  /\ [](\A id \in QueryIDs \ DOMAIN commandClientMap :
          /\ getCommandKernel(commandClientMap, id) = NilKernel
          /\ CtlGetCommandStatus(commandClientMap, id).status = StatusNotFound
          /\ CtlGetCommandStatus(commandClientMap, id).data = None
          /\ CtlGetCommandStatus(commandClientMap, id).error # None)
  /\ [][statusResp' # statusResp =>
          /\ commandClientMap' = commandClientMap
          /\ ~statusResp'.known =>
               /\ statusResp'.resp[1].status = StatusNotFound
               /\ statusResp'.resp[1].data = None]_vars

\* the status of an unknown id was asked of a non-empty registry
C10_Witness ==
  /\ statusResp.id = UnknownID
  /\ ~statusResp.known
  /\ statusResp.resp[1].status = StatusNotFound
  /\ DOMAIN commandClientMap # {}

----------------------------------------------------------------------------
(* C11: a status query that runs concurrently with the completion update    *)
(* of its session answers with the whole before-state (running, finishedAt  *)
(* and exitCode absent, no error) or the whole after-state (not running,    *)
(* finishedAt present, exitCode or errMsg set, all as the update left       *)
(* them), never with a mix of the two. The lock of getCommandKernel covers  *)
(* the lookup only: where the update writes the fields of the kernel in     *)
(* place and the query reads them through the pointer, as under SpecLock,   *)
(* the answer can mix the two states; where the update stores a new kernel  *)
(* or the query copies the fields under the lock it cannot. The source      *)
(* holds neither the update nor the reads of the query.                     *)
C11_NoTornStatus ==
  (statusResp.resp # None /\ statusResp.known) =>
    LET d == statusResp.resp[1].data[1] IN
    \/ /\ d.Running
       /\ d.FinishedAt = None
       /\ d.ExitCode = None
       /\ d.Error = ""
    \/ /\ ~d.Running
       /\ d.FinishedAt # None
       /\ d.ExitCode # None \/ d.Error # ""

\* a query answered not running without a finishedAt: the update had
\* written running and not yet finishedAt when the query read them
C11_TornAnswer ==
  /\ statusResp.known
  /\ ~statusResp.resp[1].data[1].Running
  /\ statusResp.resp[1].data[1].FinishedAt = None

(* C12, as stated: after any sequence of register operations the lookup of  *)
(* an id yields the kernel of the first register of that id.                *)
C12_FirstRegisterWins ==
  \A id \in DOMAIN firstStored :
    getCommandKernel(commandClientMap, id) = firstStored[id]

(* C12, amended: the registry holds one kernel for each id registered and   *)
(* none for any other; a register stores its kernel under the id, replacing *)
(* the one already there, and leaves the other ids alone, so the lookup     *)
(* yields the kernel of the latest register of the id, which is the first   *)
(* one for every id registered once.                                        *)
C12_LatestRegisterWins ==
  /\ DOMAIN commandClientMap = DOMAIN firstStored
  /\ \A id \in QueryIDs \ DOMAIN firstStored :
       getCommandKernel(commandClientMap, id) = NilKernel
  /\ \A id \in DOMAIN firstStored :
       /\ getCommandKernel(commandClientMap, id) = lastStored[id]
       /\ id \notin dupStored =>
            getCommandKernel(commandClientMap, id) = firstStored[id]

\* an id was registered twice with different kernels, another id once
C12_Witness ==
  /\ \E id \in dupStored :
       /\ firstStored[id] # lastStored[id]
       /\ getCommandKernel(commandClientMap, id) = lastStored[id]
  /\ \E id \in DOMAIN firstStored : id \notin dupStored

\* the session is registered and finished, or its process has exited
Finished(id) ==
  /\ id \in DOMAIN commandClientMap
  /\ \/ ~commandClientMap[id].running
     \/ proc[id].st \in {"exited", "reaped", "nospawn"}

(* C13: an Interrupt of a session that has finished, or whose process has   *)
(* exited, answers success and leaves every kernel and every process as it  *)
(* was; an Interrupt of an id that is not registered answers NotFound and   *)
(* leaves them as they were too.                                            *)
C13_InterruptFinishedOrAbsent ==
  [][\A id \in QueryIDs :
       Interrupt(id) =>
         /\ Finished(id) =>
              /\ interruptResp' = "ok"
              /\ commandClientMap' = commandClientMap
              /\ proc' = proc
         /\ id \notin DOMAIN commandClientMap =>
              /\ interruptResp' = "NotFound"
              /\ commandClientMap' = commandClientMap
              /\ proc' = proc]_vars

\* Interrupt has answered success for a session that never ran (its spawn
\* failed), the only one registered
C13_Witness ==
  /\ interruptResp = "ok"
  /\ DOMAIN commandClientMap = {S1}
  /\ proc[S1].st = "nospawn"
  /\ ~commandClientMap[S1].running

\* while the process of a session has not exited, interrupted or not, its
\* kernel is running and the status endpoint says so
RunningUntilExit ==
  \A s \in DOMAIN commandClientMap :
    proc[s].st \in {"alive", "signalled"} =>
      /\ commandClientMap[s].running
      /\ CtlGetCommandStatus(commandClientMap, s).data[1].Running
\* the step clears the running of session s
ClearsRunning(s) ==
  commandClientMap[s].running /\ ~commandClientMap'[s].running
\* the step is the monitoring path's, taken after the process of s exited
MonitorStep(s) == proc[s].st = "exited" /\ proc'[s].st = "reaped"
\* the step is the failure of the spawn of s, which never had a process
SpawnFailStep(s) == proc[s].st = "spawning" /\ proc'[s].st = "nospawn"

\* C15 as the claim states it: running goes from true to false only in a
\* step of the monitoring path taken after the process has exited; Interrupt
\* changes no kernel; a status between Interrupt and exit says running.
C15_AsClaimed ==
  /\ []RunningUntilExit
  /\ [][/\ \A s \in DOMAIN commandClientMap :
            ClearsRunning(s) => MonitorStep(s)
        /\ \A id \in QueryIDs :
            Interrupt(id) => commandClientMap' = commandClientMap]_vars

(* C15: the running of a session goes from true to false only in the step  *)
(* of the monitoring path that reaps the exited process, or in the update   *)
(* after a failed spawn, of a session that never had a process and that no  *)
(* Interrupt has signalled; an Interrupt step leaves every kernel as it     *)
(* was; and while the process has not exited, interrupted or not, the       *)
(* status endpoint reports running=true.                                    *)
C15_OnlyMonitorClearsRunning ==
  /\ []RunningUntilExit
  /\ [][/\ \A s \in DOMAIN commandClientMap :
            /\ ClearsRunning(s) => MonitorStep(s) \/ SpawnFailStep(s)
            /\ (ClearsRunning(s) /\ SpawnFailStep(s)) =>
                 /\ commandClientMap[s].pid = 0
                 /\ commandClientMap'[s].errMsg # ""
                 /\ commandClientMap'[s].exitCode = None
        /\ \A id \in QueryIDs :
            Interrupt(id) => commandClientMap' = commandClientMap]_vars

\* a status asked after the Interrupt and before the exit said running,
\* while the spawn of the other session has failed
C15_Witness ==
  /\ statusResp.known
  /\ proc[statusResp.id].st = "signalled"
  /\ interruptResp = "ok"
  /\ statusResp.resp[1].data[1].Running
  /\ \E s \in DOMAIN commandClientMap :
       /\ s # statusResp.id
       /\ proc[s].st = "nospawn"
       /\ ~commandClientMap[s].running
       /\ commandClientMap[s].errMsg # ""

\* a kernel's running flag and optional fields agree in every state
FinishFieldsAgree ==
  \A s \in DOMAIN commandClientMap :
    /\ commandClientMap[s].running =>
         /\ commandClientMap[s].finishedAt = None
         /\ commandClientMap[s].exitCode = None
    /\ proc[s].st \in {"reaped", "renoticed"} =>
         /\ ~commandClientMap[s].running
         /\ commandClientMap[s].finishedAt # None
\* the step changes the running kernel of s: the spawn gives it its pid, or
\* the one update ends it, with running=false, finishedAt and the exit code
\* or the error at once
RunningKernelStep(s) ==
  \/ /\ proc[s].st = "spawning"
     /\ proc'[s].st = "alive"
     /\ commandClientMap'[s] =
          [commandClientMap[s] EXCEPT !.pid = commandClientMap'[s].pid]
  \/ /\ proc[s].st = "spawning"
     /\ proc'[s].st = "nospawn"
     /\ commandClientMap'[s] =
          [commandClientMap[s] EXCEPT
             !.running = FALSE, !.finishedAt = Some(now),
             !.errMsg = "spawn failed"]
  \/ /\ proc[s].st = "exited"
     /\ commandClientMap'[s] =
          [commandClientMap[s] EXCEPT
             !.running = FALSE, !.finishedAt = Some(now),
             !.exitCode = proc[s].code,
             !.errMsg = ExitErrMsg(proc[s].code)]

RunStep(outcome) ==
  /\ runResp'.outcome = outcome
  /\ runResp'.n # runResp.n \/ runResp.outcome # outcome

(* C17: a run request with an empty command or an unusable working          *)
(* directory is answered at once with status 400 and the code               *)
(* InvalidRequest, and the step that rejects a request leaves the           *)
(* registry, the processes, the files and the open handles as they were.    *)
C17_InvalidRunRejectedBeforeAllocation ==
  /\ [](runResp.request # None =>
          LET request == runResp.request[1] IN
          (\/ request.Command = ""
           \/ request.Cwd \notin UsableCwds \cup {""}) =>
            /\ runResp.outcome = "rejected"
            /\ runResp.returned
            /\ runResp.resp[1].status = StatusBadRequest
            /\ runResp.resp[1].error[1].Code = ErrorCodeInvalidRequest)
  /\ [][RunStep("rejected") =>
          /\ commandClientMap' = commandClientMap
          /\ proc' = proc
          /\ fs' = fs
          /\ handles' = handles]_vars

\* a request with an empty command was rejected while a session started
\* earlier was running with its capture files open
C17_Witness ==
  /\ runResp.outcome = "rejected"
  /\ runResp.request # None
  /\ runResp.request[1].Command = ""
  /\ \E s \in DOMAIN commandClientMap :
       /\ commandClientMap[s].running
       /\ stdoutFileName(s) \in handles

(* C18: a run whose capture files cannot be opened is aborted and leaves    *)
(* nothing behind: the step registers no kernel, starts no process, and     *)
(* leaves the files and the open handles as they were.                      *)
C18_FailedOpenLeavesNothing ==
  [][RunStep("aborted") =>
       /\ commandClientMap' = commandClientMap
       /\ proc' = proc
       /\ fs' = fs
       /\ handles' = handles]_vars

\* what the status endpoint answers for a registered session
StatusOf(s) == CtlGetCommandStatus(commandClientMap, s).data[1]

(* C14: once a running session has been interrupted, the status endpoint    *)
(* eventually answers running=false for it and answers so ever after,       *)
(* provided the process obeys the termination request and the monitoring    *)
(* path runs.                                                               *)
C14_InterruptedEventuallyStopped ==
  \A s \in SessionIDs :
    (proc[s].st = "signalled" /\ interruptResp = "ok")
      ~> [](s \in DOMAIN commandClientMap /\ ~StatusOf(s).Running)

\* an interrupted session was killed, has been reaped and a status asked
\* afterwards said it is not running
C14_Witness ==
  /\ interruptResp = "ok"
  /\ statusResp.known
  /\ proc[statusResp.id].st = "reaped"
  /\ proc[statusResp.id].code = None
  /\ ~statusResp.resp[1].data[1].Running
  /\ statusResp.resp[1].data[1].Error = "signal: killed"

\* the step is the return of the run handler
ReturnStep == ~runResp.returned /\ runResp'.returned /\ runResp'.n = runResp.n

(* C20: in a background run Execute returns as soon as the process is       *)
(* spawned, with the kernel registered as a running background kernel and   *)
(* the process alive, and the handler can return from then on, whatever     *)
(* the process does; when it returns the kernel is registered, and running  *)
(* unless the process has exited and been reaped by then; the status        *)
(* endpoint answers running=true as long as the process is alive; and once  *)
(* the process has exited the status endpoint eventually answers            *)
(* running=false with the exit code of the process and answers so ever      *)
(* after, the monitoring path being the only one to act.                    *)
C20_BackgroundRunCompletesByItself ==
  /\ [][(RunStep("started") /\ runResp'.request[1].Background) =>
          /\ runResp'.session \in DOMAIN commandClientMap'
          /\ commandClientMap'[runResp'.session].running
          /\ commandClientMap'[runResp'.session].isBackground
          /\ proc'[runResp'.session].st = "alive"]_vars
  /\ []((/\ runResp.outcome = "started"
         /\ runResp.request[1].Background
         /\ ~runResp.returned) => ENABLED RunReturn)
  /\ [][(/\ ReturnStep
         /\ runResp.outcome = "started"
         /\ runResp.request[1].Background) =>
          /\ runResp.session \in DOMAIN commandClientMap
          /\ commandClientMap[runResp.session].isBackground
          /\ runResp'.resp = None
          /\ commandClientMap[runResp.session].running
               <=> proc[runResp.session].st \in {"alive", "exited"}
          /\ ~commandClientMap[runResp.session].running
               <=> proc[runResp.session].st = "reaped"]_vars
  /\ [](\A s \in DOMAIN commandClientMap :
          proc[s].st = "alive" => StatusOf(s).Running)
  /\ \A s \in SessionIDs : \A code \in ExitCodes :
       (/\ s \in DOMAIN commandClientMap
        /\ proc[s].st = "exited"
        /\ proc[s].code = Some(code)
        /\ commandClientMap[s].isBackground)
         ~> [](/\ s \in DOMAIN commandClientMap
               /\ ~StatusOf(s).Running
               /\ StatusOf(s).ExitCode = Some(code))

\* the last run was a background run and its handler has returned; its
\* process has exited with code 1 and a status asked afterwards said so
C20_Witness ==
  /\ runResp.outcome = "started"
  /\ runResp.request[1].Background
  /\ runResp.returned
  /\ statusResp.id = runResp.session
  /\ statusResp.known
  /\ ~statusResp.resp[1].data[1].Running
  /\ statusResp.resp[1].data[1].ExitCode = Some(1)

(* C19: when the terminal event of a foreground run is sent, the tailer     *)
(* has returned from its final drain and the kernel is finished             *)
(* (running=false, finishedAt, exitCode or errMsg); every byte the process  *)
(* wrote has by then been handed to the event hook in some record; and no   *)
(* record is handed to the hook afterwards.                                 *)
C19_DrainAndUpdateBeforeCompletion ==
  /\ [](terminal # None =>
          /\ tailPc = "returned"
          /\ ~commandClientMap[FgSession].running
          /\ commandClientMap[FgSession].finishedAt # None
          /\ \/ commandClientMap[FgSession].exitCode # None
             \/ commandClientMap[FgSession].errMsg # ""
          /\ terminal[1].after = Len(delivered)
          /\ \A k \in 0..(Len(file) - 1) :
               \E i \in 1..Len(delivered) : k \in Consumed(delivered, i))
  /\ [][terminal # None => delivered' = delivered]_vars

(* C21: a registered kernel with running=true always has a process behind  *)
(* it: one that is still to be spawned, alive, signalled, or exited and     *)
(* waiting for the completion update; a kernel whose spawn failed has       *)
(* running=false, a finishedAt and a non-empty errMsg; and the step in      *)
(* which the spawn of a registered, running kernel fails leaves exactly     *)
(* that.                                                                    *)
C21_SpawnFailureNotLeftRunning ==
  /\ [](\A s \in DOMAIN commandClientMap :
          /\ commandClientMap[s].running =>
               proc[s].st \in {"spawning", "alive", "signalled", "exited"}
          /\ proc[s].st = "nospawn" =>
               /\ ~commandClientMap[s].running
               /\ commandClientMap[s].errMsg # ""
               /\ commandClientMap[s].finishedAt # None)
  /\ [][\A s \in SessionIDs :
          (proc[s].st = "spawning" /\ proc'[s].st = "nospawn") =>
            /\ s \in DOMAIN commandClientMap
            /\ commandClientMap[s].running
            /\ ~commandClientMap'[s].running
            /\ commandClientMap'[s].errMsg # ""]_vars
  /\ [][RunStep("spawnfail") =>
          /\ runResp'.session \in DOMAIN commandClientMap'
          /\ ~commandClientMap'[runResp'.session].running
          /\ commandClientMap'[runResp'.session].errMsg # ""
          /\ proc'[runResp'.session].st = "nospawn"]_vars

\* the last run failed to spawn after a status had said that its kernel,
\* registered, was running; the kernel is not running now and carries the
\* spawn error, while the other session runs
C21_Witness ==
  /\ runResp.outcome = "spawnfail"
  /\ runResp.session \in DOMAIN commandClientMap
  /\ ~commandClientMap[runResp.session].running
  /\ commandClientMap[runResp.session].errMsg = "spawn failed"
  /\ statusResp.id = runResp.session
  /\ statusResp.known
  /\ statusResp.resp[1].data[1].Running
  /\ \E s \in DOMAIN commandClientMap :
       s # runResp.session /\ commandClientMap[s].running

\* the set of the three paths of a session
PathSet(p) == {p.stdout, p.stderr, p.combined}

(* C23: the paths of a session are a function of its id alone (the same id  *)
(* gives the same three paths), the three paths of one session are          *)
(* pairwise different, and no path of a session equals a path of a session  *)
(* with a different id.                                                     *)
C23_PathsCollisionFree ==
  eval.fn = "paths" =>
    /\ eval.pa = OutputPaths(eval.a)
    /\ eval.a = eval.b => eval.pa = eval.pb
    /\ Cardinality(PathSet(eval.pa)) = 3
    /\ eval.a # eval.b => PathSet(eval.pa) \cap PathSet(eval.pb) = {}

\* what holds of the paths: same id, same paths; the three paths of one
\* session differ; ids without a separator never share a path
C23_PathsOfPlainIds ==
  eval.fn = "paths" =>
    /\ eval.a = eval.b => eval.pa = eval.pb
    /\ Cardinality(PathSet(eval.pa)) = 3
    /\ (/\ eval.a # eval.b
        /\ \A i \in 1..Len(eval.a) : eval.a[i] # Separator
        /\ \A i \in 1..Len(eval.b) : eval.b[i] # Separator) =>
         PathSet(eval.pa) \cap PathSet(eval.pb) = {}

\* what a session owns is unchanged by the step: its kernel, its capture
\* files as far as they exist, its tailer's offset
OwnedUnchanged(s) ==
  /\ getCommandKernel(commandClientMap', s) =
       getCommandKernel(commandClientMap, s)
  /\ tailPos'[s] = tailPos[s]
  /\ \A p \in {stdoutFileName(s), stderrFileName(s)} :
       /\ p \in DOMAIN fs' <=> p \in DOMAIN fs
       /\ p \in DOMAIN fs => fs'[p] = fs[p]

\* the step is one taken for session a
StepFor(a) ==
  \/ runResp' # runResp /\ runResp'.session = a
  \/ RunSpawn(a)
  \/ IsoWrites(a)
  \/ TailPoll(a)
  \/ TailPollRead(a)
  \/ ProcExits(a)
  \/ EngineFinish(a)
  \/ Interrupt(a)

(* C22: a step taken for session A (run, output append, tailer poll or     *)
(* read failure, completion, spawn failure, interrupt) leaves the kernel,  *)
(* the output files and the tailer offset of every session B with a        *)
(* different id unchanged.                                                 *)
C22_SessionsIsolated ==
  [][\A a \in IsoIDs : StepFor(a) =>
       \A b \in IsoIDs \ {a} : OwnedUnchanged(b)]_vars

\* the step keeps what file p held and only adds to its end
Extended(p) ==
  /\ p \in DOMAIN fs'
  /\ Len(fs'[p]) >= Len(fs[p])
  /\ SubSeq(fs'[p], 1, Len(fs[p])) = fs[p]

(* C24: once a session's kernel is registered, no step (a further Run, an  *)
(* append, a completion, a further open of the output descriptors) makes   *)
(* its stdout or stderr file shorter or changes a byte already written.    *)
C24_OutputFilesAppendOnly ==
  [][\A s \in DOMAIN commandClientMap :
       /\ Extended(stdoutFileName(s))
       /\ Extended(stderrFileName(s))]_vars

\* the same without the further opens: every other step only appends
C24_AppendOnlyWithoutReopen ==
  [][(\A s \in SessionIDs : ~OpenDescriptors(s)) =>
       \A s \in DOMAIN commandClientMap :
         /\ Extended(stdoutFileName(s))
         /\ Extended(stderrFileName(s))]_vars

(* C25: an Interrupt, GetStatus or SeekOutput call can take the read lock  *)
(* whenever no writer holds it, whatever the process is doing; having      *)
(* taken it, it can always take its next step, it takes at most two more   *)
(* steps, and it returns, also while the process runs for ever and the     *)
(* foreground Run of the session stays blocked.                            *)
C25_OperationsDoNotWaitForProcess ==
  /\ [](qry.pc = "idle" /\ RLockFree(mu) =>
          \A op \in Operations, id \in WaitIDs : ENABLED OpRLock(op, id))
  /\ [](qry.pc = "locked" => qry.steps = 1 /\ ENABLED OpRUnlock)
  /\ [](qry.pc = "found" => qry.steps = 2 /\ ENABLED OpFinish)
  /\ (qry.pc = "locked" ~> qry.pc = "idle")

\* all three operations have returned for the foreground session S1 while
\* its process is still there and its Run is still blocked
C25_Witness ==
  /\ qry.pc = "idle"
  /\ S1 \in DOMAIN commandClientMap
  /\ commandClientMap[S1].running
  /\ ~commandClientMap[S1].isBackground
  /\ proc[S1].st = "signalled"
  /\ interruptResp = "ok"
  /\ statusResp.id = S1
  /\ statusResp.resp[1].data[1].Running
  /\ lastSeek.id = S1
  /\ lastSeek.resp[1].status = StatusOK
  /\ lastSeek.resp[1].body[1] = <<"a">>

\* raw is core with nothing but blanks before and after it
BlankWrapped(raw, core) ==
  \E i \in 1..(Len(raw) + 1) :
    /\ i + Len(core) - 1 <= Len(raw)
    /\ SubSeq(raw, i, i + Len(core) - 1) = core
    /\ \A k \in 1..Len(raw) :
         (k < i \/ k > i + Len(core) - 1) => raw[k] \in WhiteSpace

\* sub occurs in s
Contains(s, sub) ==
  \E i \in 1..(Len(s) + 1) :
    /\ i + Len(sub) - 1 <= Len(s)
    /\ SubSeq(s, i, i + Len(sub) - 1) = sub

\* the state records a call of ParsePolicy, alone or followed by Evaluate
Parsing == eval.fn \in {"ParsePolicy", "Evaluate"}

(* C26: ParsePolicy of an empty text, of blanks only, of null or of {}     *)
(* (blanks around them allowed) returns no error and a policy that is not  *)
(* nil, whose defaultAction is deny and which evaluates every domain to    *)
(* deny.                                                                   *)
C26_EmptyOrNullDefaultsDeny ==
  (/\ Parsing
   /\ \E core \in DefaultTexts : BlankWrapped(eval.raw, core)) =>
    /\ ~eval.res.err
    /\ eval.res.policy # NilPolicy
    /\ eval.res.policy.DefaultAction = ActionDeny
    /\ eval.fn = "Evaluate" => eval.action = ActionDeny

\* the text was null between blanks and a domain was evaluated to deny
C26_Witness ==
  /\ eval.fn = "Evaluate"
  /\ eval.raw = <<"\t", " ">> \o NullText \o <<"\n">>
  /\ eval.domain = <<"a", ".", "x">>
  /\ eval.action = ActionDeny

\* the text has no defaultAction member, or one that is the empty string
NoDefaultAction(raw) ==
  \/ ~Contains(ToLower(raw), ToLower(Quoted(KeyDefaultAction)))
  \/ Contains(raw, Member(KeyDefaultAction, Quoted(<<>>)))

(* C27: every policy ParsePolicy returns without error has a non-empty     *)
(* defaultAction; it is deny when the text has no defaultAction or gives   *)
(* the empty string, and Evaluate on such a policy returns deny for every  *)
(* domain that no rule of the policy matches.                              *)
C27_DefaultActionFallback ==
  (Parsing /\ ~eval.res.err) =>
    /\ eval.res.policy # NilPolicy
    /\ eval.res.policy.DefaultAction # <<>>
    /\ NoDefaultAction(eval.raw) =>
         /\ eval.res.policy.DefaultAction = ActionDeny
         /\ (/\ eval.fn = "Evaluate"
             /\ \A i \in 1..Len(eval.res.policy.Egress) :
                  ~matchesDomain(eval.res.policy.Egress[i],
                                 ToLower(TrimSuffix(eval.domain, <<".">>)))) =>
              eval.action = ActionDeny

\* a policy with one allow rule and no defaultAction was parsed, and a
\* domain its rule does not match was evaluated to deny
C27_Witness ==
  /\ eval.fn = "Evaluate"
  /\ eval.raw = Object(<<Member(KeyEgress,
                                Array(<<RuleText(ActionAllow, <<"x">>)>>))>>)
  /\ ~eval.res.err
  /\ eval.res.policy.Egress = <<[Action |-> ActionAllow, Target |-> <<"x">>]>>
  /\ eval.res.policy.DefaultAction = ActionDeny
  /\ eval.domain = <<"a", ".", "x">>
  /\ eval.action = ActionDeny

(* C28: Evaluate returns allow or deny, nothing else, for every policy     *)
(* (nil, empty, with any rules, rule actions and defaultAction) and every  *)
(* domain.                                                                 *)
C28_EvaluateAllowOrDeny ==
  eval.fn = "Evaluate" => eval.action \in {ActionAllow, ActionDeny}

\* what holds instead: Evaluate returns deny, or the action string of the
\* first matching rule, or the defaultAction string, as they are
C28_EvaluateReturnsStoredAction ==
  eval.fn = "Evaluate" =>
    \/ eval.action = ActionDeny
    \/ /\ eval.res.policy # NilPolicy
       /\ \/ eval.action = eval.res.policy.DefaultAction
          \/ \E i \in 1..Len(eval.res.policy.Egress) :
               eval.action = eval.res.policy.Egress[i].Action

\* the target as a domain name: blanks around it and letter case aside
Pattern(target) == ToLower(TrimSpace(target))

\* domain is one or more characters followed by "." and x
SubdomainOf(domain, x) ==
  /\ Len(domain) > Len(x) + 1
  /\ SubSeq(domain, Len(domain) - Len(x), Len(domain)) = <<".">> \o x

(* C29: a wildcard target *.X matches every domain that is one or more     *)
(* labels followed by .X and does not match X itself; a target that is no  *)
(* wildcard matches the domain equal to it and no other; an empty target   *)
(* or one of blanks only matches nothing.  Names are compared without      *)
(* regard to letter case, the target without the blanks around it.         *)
C29_WildcardAndExactMatch ==
  eval.fn = "matchesDomain" =>
    LET p == Pattern(eval.target)
        d == ToLower(eval.domain)
    IN /\ HasPrefix(p, <<"*", ".">>) =>
            /\ SubdomainOf(d, SubSeq(p, 3, Len(p))) => eval.matched
            /\ d = SubSeq(p, 3, Len(p)) => ~eval.matched
       /\ (p # <<>> /\ ~HasPrefix(p, <<"*", ".">>)) => (eval.matched <=> d = p)
       /\ p = <<>> => ~eval.matched

\* the wildcard *.X was asked about a subdomain of x written in lower case
\* and matched it
C29_Witness ==
  /\ eval.fn = "matchesDomain"
  /\ eval.target = <<"*", ".", "X">>
  /\ eval.domain = <<"a", ".", "x">>
  /\ eval.matched

\* a call of checkReady is under way or has ended
Polling == ready.pc # "idle"
\* the call has ended, by a return or by a throw
Ended == ready.pc \in {"returned", "thrown"}
\* the call is between two attempts: at the loop's test or in the sleep
BetweenAttempts == ready.pc \in {"loop", "sleep"}

\* the step is an attempt that ends with result
AttemptEnds(result) ==
  /\ Polling
  /\ ready.pc = "attempt"
  /\ Len(ready'.results) = Len(ready.results) + 1
  /\ ready'.results[Len(ready'.results)] = result

\* the step starts an attempt
AttemptStarts ==
  /\ Polling
  /\ ready.pc = "loop"
  /\ ready'.pc = "attempt"

\* once the deadline has passed the call ends, wherever it is
EndsAfterDeadline ==
  (Polling /\ ready.clock >= ready.deadline) ~> (Polling /\ Ended)

(* C30, as the claim states it: checkReady returns normally only after an  *)
(* attempt returned true; a call that ends without one ends by throwing    *)
(* SandboxReadyTimeoutException; an attempt that throws (whatever it       *)
(* throws) is a failed attempt after which the polling goes on; and once   *)
(* the deadline has passed the call ends.                                  *)
C30_CheckReadyAsClaimed ==
  /\ [](Polling /\ ready.pc = "returned" =>
          /\ ready.results # <<>>
          /\ ready.results[Len(ready.results)] = "true")
  /\ [](Polling /\ ready.pc = "thrown" =>
          ready.thrown = "SandboxReadyTimeoutException")
  /\ [][AttemptEnds("Exception") \/ AttemptEnds("Error") =>
          ready'.pc = "sleep"]_vars
  /\ EndsAfterDeadline

(* C30, amended: checkReady returns normally only after an attempt         *)
(* returned true; SandboxReadyTimeoutException is thrown only once the     *)
(* deadline has passed and no attempt returned true, and a call that ends  *)
(* otherwise without a return ended with the Error of an attempt, with a   *)
(* throw of the sleep between two attempts (negative interval, interrupt,  *)
(* interval whose milliseconds overflow) or with the ArithmeticException   *)
(* of a timeout whose milliseconds overflow; an attempt that throws an     *)
(* Exception is a failed attempt after which the polling goes on, one that *)
(* throws an Error ends the call with that Error; no attempt starts once   *)
(* the deadline has passed, the loop's test then throws, and a call that   *)
(* is between two attempts when the deadline has passed ends; an attempt   *)
(* that never comes back keeps the call from ending, deadline or not.      *)
C30_CheckReadyPolling ==
  /\ [](Polling /\ ready.pc = "returned" =>
          /\ ready.results # <<>>
          /\ ready.results[Len(ready.results)] = "true")
  /\ [](Polling /\ ready.thrown = "SandboxReadyTimeoutException" =>
          /\ ready.clock >= ready.deadline
          /\ \A i \in 1..Len(ready.results) :
               ready.results[i] \in {"false", "Exception"})
  /\ [](Polling /\ ready.pc = "thrown" =>
          \/ ready.thrown = "SandboxReadyTimeoutException"
          \/ /\ ready.thrown = "Error"
             /\ ready.results[Len(ready.results)] = "Error"
          \/ /\ ready.thrown = "IllegalArgumentException"
             /\ ready.interval < 0
          \/ ready.thrown = "InterruptedException"
          \/ /\ ready.thrown = "ArithmeticException"
             /\ \/ ToMillisThrows(ready.timeout) /\ ready.attempt = 0
                \/ ToMillisThrows(ready.interval) /\ ready.attempt > 0)
  /\ [][AttemptEnds("Exception") =>
          ready'.pc = "sleep" /\ ready'.lastException # None]_vars
  /\ [][AttemptEnds("false") => ready'.pc = "sleep"]_vars
  /\ [][AttemptEnds("Error") =>
          ready'.pc = "thrown" /\ ready'.thrown = "Error"]_vars
  /\ [][AttemptStarts => ready.clock < ready.deadline]_vars
  /\ [][Polling /\ ready.pc = "loop" /\ ready.clock >= ready.deadline =>
          \/ ready'.thrown = "SandboxReadyTimeoutException"
          \/ UNCHANGED ready]_vars
  /\ [][Polling /\ ready.pc = "hung" => UNCHANGED ready]_vars
  /\ (Polling /\ BetweenAttempts /\ ready.clock >= ready.deadline)
       ~> (Polling /\ Ended)

\* a call whose first attempt threw an Exception and whose second returned
\* false after the deadline had passed during it has ended with
\* SandboxReadyTimeoutException
C30_Witness ==
  /\ Polling
  /\ ready.pc = "thrown"
  /\ ready.thrown = "SandboxReadyTimeoutException"
  /\ ready.results = <<"Exception", "false">>
  /\ ready.message = "Last error"
  /\ ready.spent > 0
  /\ ready.interval = 0
  /\ ready.clock >= ready.deadline

\* Sandbox.create has ended by a throw
CreateThrew == create # NoCreate /\ create.pc = "thrown"
\* the step that failed came after the remote creation
FailedAfterCreation ==
  create.failedAt \in {"getSandboxEndpoint", "services", "checkReady"}
\* what the catch block throws for the failure it caught
Rethrown(failure) ==
  IF failure = Some("SandboxException")
  THEN [kind |-> "SandboxException", cause |-> None]
  ELSE [kind |-> "SandboxInternalException", cause |-> failure]

(* C31, as the claim states it: when a step after the remote creation      *)
(* failed, whatever it threw, create has killed the sandbox exactly once,  *)
(* closed the provider and thrown the original failure (as it is or        *)
(* wrapped); when the creation failed it has killed nothing.               *)
C31_CleanupAsClaimed ==
  CreateThrew =>
    IF FailedAfterCreation
    THEN /\ create.kills = <<SandboxId>>
         /\ create.closed = 1
         /\ create.thrown = Rethrown(create.failure)
    ELSE create.kills = <<>>

(* C31, amended: when a step after the remote creation threw an Exception, *)
(* create has called killSandbox for the sandbox id exactly once and,      *)
(* unless that kill threw an Error, has called close() of the provider     *)
(* once (kill succeeded or threw an Exception); when close() returned it   *)
(* has thrown the original failure, as it is when it is a SandboxException *)
(* and wrapped in SandboxInternalException otherwise, and when close()     *)
(* threw it has thrown what close() threw; when the creation itself failed *)
(* no kill was attempted; and a step that threw an Error ends create with  *)
(* that Error, nothing killed and nothing closed.                          *)
C31_CleanupAfterException ==
  CreateThrew =>
    IF create.failure = Some("Error")
    THEN /\ create.kills = <<>>
         /\ create.closed = 0
         /\ create.thrown.kind = "Error"
    ELSE /\ create.kills = IF FailedAfterCreation THEN <<SandboxId>> ELSE <<>>
         /\ IF create.closed = 0
            THEN create.kills # <<>> /\ create.thrown.kind = "Error"
            ELSE /\ create.closed = 1
                 /\ create.thrown =
                      IF create.closeFailure = None
                      THEN Rethrown(create.failure)
                      ELSE [kind |-> create.closeFailure[1], cause |-> None]

\* checkReady timed out, the kill of the created sandbox failed with an
\* Exception, the provider was closed and the timeout was rethrown as it is
C31_Witness ==
  /\ CreateThrew
  /\ create.failedAt = "checkReady"
  /\ ready.thrown = "SandboxReadyTimeoutException"
  /\ create.kills = <<SandboxId>>
  /\ create.suppressed = Some("Exception")
  /\ create.closed = 1
  /\ create.closeFailure = None
  /\ create.thrown = [kind |-> "SandboxException", cause |-> None]

\* the step is the done case of tailStdPipe's select
DoneObserved == tailPc = "loop" /\ tailPc' = "returned"
\* the invocations of onExecute made by the read numbered cycle
InvocationsOf(cycle) == {i \in 1..Len(delivered) : delivered[i].cycle = cycle}

(* C32: the step that observes the done signal makes one read, from the    *)
(* offset recorded last, and tailStdPipe returns with it; once returned,   *)
(* the tailer reads nothing more; and when that last read succeeded, every *)
(* byte that was in the file from that offset to end-of-file lies in a     *)
(* record the read handed to the callback.                                 *)
C32_OneFinalReadFromLastOffset ==
  /\ [][DoneObserved =>
          /\ done
          /\ lastCycle'.kind = "drain"
          /\ lastCycle'.start = lastPos
          /\ lastCycle'.err = "none" => lastCycle'.eof = Len(file)
          /\ SubSeq(delivered', 1, Len(delivered)) = delivered
          /\ \A i \in (Len(delivered) + 1)..Len(delivered') :
               /\ delivered'[i].via = "drain"
               /\ delivered'[i].at >= lastPos]_vars
  /\ [][tailPc = "returned" =>
          /\ tailPc' = "returned"
          /\ delivered' = delivered
          /\ lastCycle' = lastCycle
          /\ lastPos' = lastPos
          /\ polls' = polls]_vars
  /\ [](tailPc = "returned" =>
          /\ lastCycle.kind = "drain"
          /\ lastCycle.err = "none" =>
               \A k \in lastCycle.start..(Len(file) - 1) :
                 \E i \in InvocationsOf(polls + 1) :
                   k \in Consumed(delivered, i))

\* the tailer returned after a poll that had advanced the offset; its last
\* read succeeded and handed over bytes written after that poll
C32_Witness ==
  /\ tailPc = "returned"
  /\ lastCycle.kind = "drain"
  /\ lastCycle.err = "none"
  /\ lastCycle.start > 0
  /\ lastCycle.start < Len(file)
  /\ lastCycle.n >= 2

\* the step is the Read of a poll that returns io.EOF
PollSeesEOF ==
  /\ tailPc \in {"loop", "reading"}
  /\ tailPc' = "polled"
  /\ scan'.opened
  /\ scan'.scanner.eof

(* C33: the tailer's offset starts at 0, never decreases and changes only  *)
(* at the end of a poll; the Read of a poll that returns io.EOF stands at  *)
(* the end of the file as it is at that moment; and after a poll whose     *)
(* read succeeded the offset is that end-of-file position, which is the    *)
(* old offset plus the bytes consumed by the records the read delivered,   *)
(* delimiters included; after a failed poll it is the old one.             *)
C33_OffsetMonotonicToEndOfFile ==
  /\ [](polls = 0 => lastPos = 0)
  /\ [][lastPos' >= lastPos]_vars
  /\ [][lastPos' # lastPos => PollEnds]_vars
  /\ [][PollSeesEOF => scan'.scanner.rpos = Len(file)]_vars
  /\ [][PollEnds =>
          /\ lastCycle'.start = lastPos
          /\ lastPos' = lastCycle'.ret
          /\ IF lastCycle'.err = "none"
             THEN /\ scan.scanner.eof
                  /\ lastPos' = scan.scanner.rpos
                  /\ lastPos' = lastCycle'.eof
                  /\ \A k \in lastPos..(lastPos' - 1) :
                       \E i \in InvocationsOf(polls + 1) :
                         k \in Consumed(delivered, i)
                  /\ \A i \in InvocationsOf(polls + 1) :
                       Consumed(delivered, i) \subseteq
                         lastPos..(lastPos' - 1)
                  /\ \A i, j \in InvocationsOf(polls + 1) :
                       i # j => Consumed(delivered, i) \cap
                                  Consumed(delivered, j) = {}
             ELSE lastPos' = lastPos]_vars

\* a second poll succeeded and advanced the offset from a position inside
\* the file over more than one record to the end of the file it saw, part
\* of which the process wrote while the poll was reading
C33_Witness ==
  /\ polls = 2
  /\ lastCycle.kind = "poll"
  /\ lastCycle.err = "none"
  /\ lastCycle.start > 0
  /\ lastPos = lastCycle.eof
  /\ lastCycle.eof > lastCycle.size
  /\ lastPos > lastCycle.start
  /\ lastCycle.n >= 2

\* a record longer than the maximum record size lies between offset pos
\* and the end of f: it starts at pos or after a delimiter and has more
\* than MaxTokenSize bytes before its delimiter or the end of the file
OversizedAhead(f, pos) ==
  \E p \in pos..(Len(f) - MaxTokenSize - 1) :
    /\ p = pos \/ f[p] \in {CR, LF}
    /\ \A k \in 1..(MaxTokenSize + 1) : f[p + k] \notin {CR, LF}
\* the step ends a read of the tailer, a poll or the final drain
ReadStep == PollEnds \/ DoneObserved

(* C34 as claimed: while a record longer than the maximum record size lies *)
(* between the tailer's offset and end-of-file, every poll and the final   *)
(* drain fail and leave the offset where it is, and the record stays ahead *)
(* of the offset whatever is written after it: the offset never moves      *)
(* again.                                                                  *)
C34_StallsEveryPoll ==
  /\ [][(ReadStep /\ OversizedAhead(file, lastPos)) =>
          /\ lastCycle'.err # "none"
          /\ lastCycle'.ret = lastCycle'.start
          /\ lastPos' = lastPos]_vars
  /\ [][OversizedAhead(file, lastPos) =>
          /\ lastPos' = lastPos
          /\ OversizedAhead(file', lastPos')]_vars

\* an oversized record lies between the offset and end-of-file, and so it
\* did when the poll under way, if there is one, began
Stalled ==
  /\ OversizedAhead(file, lastPos)
  /\ tailPc \in {"reading", "polled"} =>
       OversizedAhead(SubSeq(file, 1, scan.size), lastPos)

(* C34: every poll that begins while a record longer than the maximum      *)
(* record size lies between the tailer's offset and end-of-file, and the   *)
(* final drain, fail and leave the offset where it is, and the record      *)
(* stays ahead of the offset whatever is written after it: from then on    *)
(* the offset never moves again.  The tailer keeps no trace of the failure *)
(* but the unchanged offset: it goes on polling and returns from the drain *)
(* as it does without failure, and the terminal event of the run carries   *)
(* the exit of the process and nothing of the failed reads.                *)
C34_OversizedRecordStallsTailer ==
  /\ [][(PollEnds /\ Stalled) =>
          /\ lastCycle'.err # "none"
          /\ lastCycle'.ret = lastCycle'.start]_vars
  /\ [][(DoneObserved /\ OversizedAhead(file, lastPos)) =>
          /\ lastCycle'.err # "none"
          /\ lastCycle'.ret = lastCycle'.start]_vars
  /\ [][Stalled => lastPos' = lastPos /\ Stalled']_vars
  /\ [][(ReadStep /\ lastCycle'.err # "none") =>
          tailPc' = IF lastCycle'.kind = "drain" THEN "returned"
                    ELSE "loop"]_vars
  /\ [](terminal # None =>
          /\ terminal[1].exitCode = proc[FgSession].code
          /\ terminal[1].errMsg = ExitErrMsg(proc[FgSession].code))

\* an oversized record at the head of the file, with a line feed written
\* after it: two polls and then the drain failed on it, the offset is 0
C34_Witness ==
  /\ tailPc = "returned"
  /\ lastPos = 0
  /\ OversizedAhead(file, lastPos)
  /\ Len(file) = MaxTokenSize + 2
  /\ file[Len(file)] = LF
  /\ polls = 2
  /\ lastCycle.kind = "drain"
  /\ lastCycle.err = "scan"
  /\ delivered = <<>>
  /\ terminal # None
  /\ terminal[1].exitCode = Some(0)
  /\ terminal[1].errMsg = ""

\* the fields of a kernel that are fixed at its creation; the session id is
\* the key the kernel is registered under
FixedFields(kernel) ==
  [startedAt |-> kernel.startedAt, isBackground |-> kernel.isBackground,
   stdoutPath |-> kernel.stdoutPath, stderrPath |-> kernel.stderrPath]

(* C35: the fields fixed at the creation of a kernel are the same after     *)
(* every step: a registered session stays registered under its id with its  *)
(* startedAt, isBackground, stdoutPath and stderrPath, a session whose      *)
(* spawn failed carries the time of its registration, and the startedAt an  *)
(* answer of the status endpoint carries is the one stored at registration. *)
C35_CreationFieldsNeverChange ==
  /\ [][\A s \in DOMAIN commandClientMap :
          /\ s \in DOMAIN commandClientMap'
          /\ FixedFields(commandClientMap'[s]) =
               FixedFields(commandClientMap[s])]_vars
  /\ [][\A s \in DOMAIN commandClientMap' \ DOMAIN commandClientMap :
          \E background \in BOOLEAN :
            FixedFields(commandClientMap'[s]) =
              FixedFields(NewKernel(s, 0, background, now))]_vars
  /\ [](FixedFields(commandClientMap[BgSession]) =
          FixedFields(NewKernel(BgSession, 100, TRUE, 1)))
  /\ [](statusResp.known =>
          /\ statusResp.resp[1].status = StatusOK
          /\ statusResp.resp[1].data[1].ID = statusResp.id
          /\ statusResp.resp[1].data[1].StartedAt =
               Some(commandClientMap[statusResp.id].startedAt))

\* the session was interrupted, polled by its tailer, read by the seek
\* endpoint and finished; a status asked afterwards carries finishedAt and
\* the startedAt of the registration
C35_Witness ==
  /\ statusResp.known
  /\ statusResp.id = BgSession
  /\ statusResp.resp[1].data[1].StartedAt = Some(1)
  /\ statusResp.resp[1].data[1].FinishedAt # None
  /\ statusResp.resp[1].data[1].FinishedAt # Some(1)
  /\ interruptResp = "ok"
  /\ tailPos[BgSession] > 0
  /\ lastSeek.id = BgSession
  /\ lastSeek.resp[1].body[1] # <<>>
  /\ S2 \in DOMAIN commandClientMap
  /\ proc[S2].st = "nospawn"
  /\ ~commandClientMap[S2].running

\* the last call of the seek-output endpoint was for a known session with a
\* cursor not greater than the length of the output
SeekNotBeyond ==
  /\ lastSeek.resp # None
  /\ lastSeek.known
  /\ lastSeek.cursor <= lastSeek.len
\* and the cursor was inside the output or at its end
SeekWithin == SeekNotBeyond /\ lastSeek.cursor >= 0

\* C36 as the claim states it: every call with a cursor c not greater than
\* the length L returns the bytes at offsets c..L-1, which are L - c bytes,
\* and the new cursor c plus the number of bytes returned.
C36_AsClaimed ==
  SeekNotBeyond =>
    LET resp == lastSeek.resp[1]
        c == lastSeek.cursor
    IN /\ resp.status = StatusOK
       /\ Len(resp.body[1]) = lastSeek.len - c
       /\ \A i \in 1..Len(resp.body[1]) :
            c + i >= 1 /\ resp.body[1][i] = fs[BgStdout][c + i]
       /\ resp.header[1] = FormatInt(c + Len(resp.body[1]))

(* C36: a call of the seek-output endpoint with a cursor c between 0 and   *)
(* the length L of the output returns the bytes at offsets c..L-1 and, in  *)
(* the cursor header, c plus the number of bytes returned; the new cursor  *)
(* is never smaller than c, and it is greater than 0 when a non-empty      *)
(* output is read from cursor 0. A negative cursor reaches the runtime as  *)
(* it is: there are no bytes at offsets below 0, and the answer is an      *)
(* error or is shorter than L - c bytes.                                   *)
C36_SeekReturnsRestAndNewCursor ==
  /\ SeekWithin =>
       LET resp == lastSeek.resp[1]
           c == lastSeek.cursor
           new == QueryInt64(resp.header[1], 0 - 1)
       IN /\ resp.status = StatusOK
          /\ resp.body[1] = SubSeq(fs[BgStdout], c + 1, lastSeek.len)
          /\ Len(resp.body[1]) = lastSeek.len - c
          /\ resp.header[1] = FormatInt(c + Len(resp.body[1]))
          /\ new = c + Len(resp.body[1])
          /\ new >= c
          /\ (c = 0 /\ lastSeek.len > 0) => new > 0
  /\ (SeekNotBeyond /\ lastSeek.cursor < 0) =>
       \/ lastSeek.resp[1].status # StatusOK
       \/ Len(lastSeek.resp[1].body[1]) < lastSeek.len - lastSeek.cursor

\* a call with a cursor inside a longer output returned the rest of it
C36_Witness ==
  /\ SeekWithin
  /\ lastSeek.cursor = 2
  /\ lastSeek.len = 4
  /\ lastSeek.resp[1].body[1] = SubSeq(fs[BgStdout], 3, 4)
  /\ lastSeek.resp[1].header[1] = <<"4">>

\* the domain as Evaluate compares it: one trailing dot removed, lower case
Normalized(domain) == ToLower(TrimSuffix(domain, <<".">>))
\* the rules of p whose target matches the domain, by their index
MatchingRules(p, domain) ==
  {i \in 1..Len(p.Egress) : matchesDomain(p.Egress[i], Normalized(domain))}
\* an action as Evaluate returns it: deny when it is empty
OrDeny(action) == IF action = <<>> THEN ActionDeny ELSE action
FirstOf(S) == CHOOSE i \in S : \A j \in S : i <= j

(* C37: Evaluate is first-match-wins in the order of the egress list: when *)
(* some rule's target matches the domain the result is the action of the   *)
(* first such rule (deny when it is empty) whatever the later rules say,   *)
(* and the default action (deny when empty) is the result only when no     *)
(* rule matches; so the result is allow only if the first matching rule    *)
(* says allow, or no rule matches and defaultAction is allow.              *)
C37_FirstMatchingRuleDecides ==
  eval.fn = "EvaluatePolicy" =>
    LET p == eval.policy
        M == MatchingRules(p, eval.domain)
    IN /\ M # {} => eval.action = OrDeny(p.Egress[FirstOf(M)].Action)
       /\ M = {} => eval.action = OrDeny(p.DefaultAction)
       /\ eval.action = ActionAllow =>
            \/ M # {} /\ p.Egress[FirstOf(M)].Action = ActionAllow
            \/ M = {} /\ p.DefaultAction = ActionAllow

\* a policy of two rules that both match a.x, allow first and deny second,
\* with default deny: the result is allow
C37_Witness ==
  /\ eval.fn = "EvaluatePolicy"
  /\ eval.domain = <<"a", ".", "x">>
  /\ MatchingRules(eval.policy, eval.domain) = {1, 2}
  /\ eval.policy.Egress[1].Action = ActionAllow
  /\ eval.policy.Egress[2].Action = ActionDeny
  /\ eval.policy.DefaultAction = ActionDeny
  /\ eval.action = ActionAllow

\* the letters of the names and targets below, in every case they have: a
\* and x, and the Greek sigma, which has a capital (U+03A3), a small
\* (U+03C3) and a final small form (U+03C2)
CaseLetters == {"a", "A", "x", "X", "U+03A3", "U+03C3", "U+03C2"}
\* the forms of a letter: the letters that unicode.SimpleFold holds equal to
\* it; any other character has one form
CaseFormsOf ==
  [c \in CaseLetters |-> {x \in CaseLetters : foldRune(x) = foldRune(c)}]
CaseForms(c) == IF c \in CaseLetters THEN CaseFormsOf[c] ELSE {c}
\* the strings that differ from s in letter case only
RECURSIVE Recasings(_)
Recasings(s) ==
  IF s = <<>> THEN {<<>>}
  ELSE {<<c>> \o rest : c \in CaseForms(s[1]), rest \in Recasings(Tail(s))}
\* the re-casings of s that strings.ToLower maps to what it maps s to: every
\* re-casing of an ASCII string is one
SameLower(s) == {t \in Recasings(s) : ToLower(t) = ToLower(s)}
\* the rule lists that differ from e in the letter case of targets only
RECURSIVE RecasedRules(_)
RecasedRules(e) ==
  IF e = <<>> THEN {<<>>}
  ELSE {<<[Action |-> e[1].Action, Target |-> t]>> \o rest :
          t \in Recasings(e[1].Target), rest \in RecasedRules(Tail(e))}
\* those of them whose targets have the lower-case forms of the targets of e
SameLowerRules(e) ==
  {f \in RecasedRules(e) :
     \A i \in 1..Len(e) : ToLower(f[i].Target) = ToLower(e[i].Target)}

\* the policy of one rule that allows target, with default deny
AllowOnly(target) ==
  [Egress |-> <<[Action |-> ActionAllow, Target |-> target]>>,
   DefaultAction |-> ActionDeny]

\* C38 as the claim states it: for every policy and every domain d,
\* Evaluate(d), Evaluate(d + ".") and Evaluate of every re-casing of d, or of
\* the rule targets, return the same result.
C38_AsClaimed ==
  eval.fn = "EvaluatePolicy" =>
    /\ \A d \in Recasings(eval.domain) :
         /\ Evaluate(eval.policy, d) = eval.action
         /\ Evaluate(eval.policy, d \o <<".">>) = eval.action
    /\ \A e \in RecasedRules(eval.policy.Egress) :
         Evaluate([eval.policy EXCEPT !.Egress = e], eval.domain) =
           eval.action

(* C38: the result of Evaluate does not depend on the letter case of the   *)
(* domain or of the rule targets as far as strings.ToLower removes it: a   *)
(* re-casing of the domain, or of the targets, with the same lower-case    *)
(* form gets the same result, and every ASCII re-casing is one. For a      *)
(* domain d that does not end in a dot, d followed by one dot gets the     *)
(* result of d. One dot only is removed and lower case is not a case       *)
(* folding: under the policy that allows only x the domain "x." is allowed *)
(* and "x.." denied, and under the policy that allows only the final sigma *)
(* the final sigma is allowed and its capital denied.                      *)
C38_CaseAndTrailingDotInsensitive ==
  eval.fn = "EvaluatePolicy" =>
    /\ \A d \in SameLower(eval.domain) :
         /\ Evaluate(eval.policy, d) = eval.action
         /\ ~HasSuffix(d, <<".">>) =>
              Evaluate(eval.policy, d \o <<".">>) = eval.action
    /\ \A e \in SameLowerRules(eval.policy.Egress) :
         Evaluate([eval.policy EXCEPT !.Egress = e], eval.domain) =
           eval.action
    /\ (eval.policy = AllowOnly(<<"x">>) /\ eval.domain = <<"x", ".">>) =>
         /\ eval.action = ActionAllow
         /\ Evaluate(eval.policy, eval.domain \o <<".">>) = ActionDeny
    /\ (eval.policy = AllowOnly(<<"U+03C2">>)
          /\ eval.domain = <<"U+03C2">>) =>
         /\ eval.action = ActionAllow
         /\ <<"U+03A3">> \in Recasings(eval.domain)
         /\ Evaluate(eval.policy, <<"U+03A3">>) = ActionDeny

\* the domain A.X in capitals is allowed by a rule with target a.X, which
\* the default would deny, and so are a.x with a trailing dot and the name
\* under the re-cased target A.x
C38_Witness ==
  /\ eval.fn = "EvaluatePolicy"
  /\ eval.domain = <<"A", ".", "X">>
  /\ eval.policy = AllowOnly(<<"a", ".", "X">>)
  /\ eval.action = ActionAllow
  /\ <<"a", ".", "x">> \in SameLower(eval.domain)
  /\ Evaluate(eval.policy, <<"a", ".", "x", ".">>) = ActionAllow
  /\ Evaluate(AllowOnly(<<"A", ".", "x">>), eval.domain) = ActionAllow

----------------------------------------------------------------------------
\* the status and the error code of a response
IsError(resp, status, code) ==
  /\ resp.status = status
  /\ resp.error # None
  /\ resp.error[1].Code = code

\* the response is a runtime error: status 500 or the code RuntimeError
RuntimeFailure(resp) ==
  \/ resp.status = StatusInternalServerError
  \/ resp.error # None /\ resp.error[1].Code = ErrorCodeRuntimeError

(* C39: an unknown session id is a client error at the HTTP boundary: the   *)
(* seek-output endpoint answers it with status 400, the code InvalidRequest *)
(* and no cursor header, the status endpoint with status 404 and the code   *)
(* InvalidRequest; no answer of these two endpoints is a runtime error, and *)
(* the run endpoint answers with status 500 and the code RuntimeError       *)
(* exactly when Execute returned a failure.                                 *)
C39_UnknownIdIsClientError ==
  /\ (lastSeek.resp # None /\ ~lastSeek.known) =>
       /\ IsError(lastSeek.resp[1], StatusBadRequest, ErrorCodeInvalidRequest)
       /\ lastSeek.resp[1].header = None
  /\ (statusResp.resp # None /\ ~statusResp.known) =>
       IsError(statusResp.resp[1], StatusNotFound, ErrorCodeInvalidRequest)
  /\ lastSeek.resp # None => ~RuntimeFailure(lastSeek.resp[1])
  /\ statusResp.resp # None => ~RuntimeFailure(statusResp.resp[1])
  /\ runResp.resp # None =>
       (RuntimeFailure(runResp.resp[1]) <=> runResp.execErr)
  /\ (runResp.execErr /\ runResp.returned) =>
       /\ runResp.resp # None
       /\ IsError(runResp.resp[1], StatusInternalServerError,
                  ErrorCodeRuntimeError)
  /\ runResp.outcome = "aborted" => runResp.execErr
  /\ runResp.outcome \in {"none", "rejected", "registered", "started"} =>
       ~runResp.execErr

\* both endpoints were asked about an id never registered while the last
\* run was aborted by a failure of Execute
C39_Witness ==
  /\ lastSeek.resp # None
  /\ lastSeek.id = UnknownID
  /\ lastSeek.resp[1].status = StatusBadRequest
  /\ statusResp.resp # None
  /\ statusResp.id = UnknownID
  /\ statusResp.resp[1].status = StatusNotFound
  /\ runResp.outcome = "aborted"
  /\ runResp.returned
  /\ runResp.resp[1].status = StatusInternalServerError
  /\ commandClientMap # <<>>

----------------------------------------------------------------------------
(* C40: the seek-output endpoint passes a well-defined cursor to            *)
(* SeekBackgroundCommandOutput: a missing, empty or non-numeric cursor      *)
(* query value becomes 0, and a value that is a signed decimal integer,     *)
(* negative ones included, however it is spelled, is passed as that         *)
(* integer; the answer for a known session and a cursor from 0 on is the    *)
(* output from that cursor.                                                 *)
C40_CursorPassedThrough ==
  lastSeek.id # <<>> =>
    /\ lastSeek.cursor \in Int
    /\ lastSeek.q \in {<<>>} \cup NonNumeric => lastSeek.cursor = 0
    /\ \A v \in CursorValues :
         lastSeek.q \in Spellings(v) => lastSeek.cursor = v
    /\ (lastSeek.known /\ lastSeek.cursor >= 0) =>
         /\ lastSeek.resp # None
         /\ lastSeek.resp[1].status = StatusOK
         /\ lastSeek.resp[1].body[1] =
              SubSeq(fs[stdoutFileName(lastSeek.id)], lastSeek.cursor + 1,
                     lastSeek.len)

\* the session has written, and a client sent the cursor -1: the handler
\* passed -1
C40_Witness ==
  /\ lastSeek.id = BgSession
  /\ lastSeek.known
  /\ lastSeek.len > 0
  /\ lastSeek.q = <<"-", "1">>
  /\ lastSeek.cursor = 0 - 1

=============================================================================
